---- MODULE Spec2Model ----
(***************************************************************************)
(* A model of the spec engine of lean-spec-desktop (src-tauri/src/specs):  *)
(* the frontmatter parser, the spec loader, the dependency resolver and    *)
(* graph builder.                                                          *)
(*                                                                         *)
(* Text is modelled at the level the code works on: a string is a sequence *)
(* of one-character strings, so that prefix tests, substring search,       *)
(* trimming, splitting, number parsing and number formatting are computed  *)
(* as the code computes them.                                              *)
(***************************************************************************)
EXTENDS Integers, Sequences, FiniteSets, TLC

VARIABLES
    fs,       \* the specs directory on disk: [exists, root, archived]
    cmd,      \* the command that ran last on the loader side
    specs,    \* the Vec<Spec> that command got from load_all
    graph,    \* the DependencyGraph of get_dependency_graph
    found,    \* the identifier and the Option<Spec> of get_spec_detail
    doc,      \* a document text handed to parse_frontmatter
    parsed,   \* the (Frontmatter, String) parse_frontmatter returned for doc
    results,  \* the ValidationResults of validate_spec or validate_all_specs
    request,  \* the arguments of the last update_spec_status call
    outcome,  \* the Result<Spec, String> that call returned
    before,   \* the specs directory as it was when that call began
    dependencies, \* the SpecDependencies get_spec_dependencies_cmd returned
    stats,    \* the StatsResult calculate_stats returned
    estimates, \* estimate_tokens of a text and of the text with more appended
    earlier,  \* the specs an earlier load pass over the same directory returned
    store,    \* the ProjectsFile the ProjectStore guards: [projects, recent_projects]
    called,   \* the last ProjectStore method called, its result and the store before it
    config,   \* the DesktopConfig in CONFIG: [active_project_id]
    payload,  \* the last desktop command, its result and the config before it
    manager,  \* the UiServerManager: [child, url], each behind its mutex
    threads,  \* each thread calling the manager: its position and locals
    children, \* the server processes spawned so far: running or killed
    env       \* the value of LEAN_SPEC_UI_URL

vars == <<fs, cmd, specs, graph, found, doc, parsed, results, request, outcome, before, dependencies, stats, estimates, earlier, store, called, config, payload, manager, threads, children, env>>

(***************************************************************************)
(* Option<T>                                                               *)
(***************************************************************************)
None == [some |-> FALSE]
Some(v) == [some |-> TRUE, v |-> v]

\* A let binding: F of the value of v, v evaluated once
With(v, F(_)) == CHOOSE r \in {F(x) : x \in {v}} : TRUE

(***************************************************************************)
(* The desktop shell as it is constructed                                  *)
(***************************************************************************)
\* ProjectsFile::default()
ProjectsFile_default == [projects |-> <<>>, recent_projects |-> <<>>]

\* DesktopConfig::default(), of which only active_project_id is kept
DesktopConfig_default == [active_project_id |-> None]

\* UiServerManager::new()
UiServerManager_new == [child |-> None, url |-> None]

\* No ProjectStore method was called and no desktop command ran
NoCall == [op |-> "none"]

NoCommand == [command |-> "none"]

(***************************************************************************)
(* Characters and the str methods the code calls                           *)
(***************************************************************************)
Digits == <<"0", "1", "2", "3", "4", "5", "6", "7", "8", "9">>

DigitChars == {Digits[i] : i \in 1..10}

DigitValue(c) == (CHOOSE i \in 1..10 : Digits[i] = c) - 1

\* char::is_whitespace, on the characters the documents here are made of
Whitespace == {" ", "\t", "\n", "\r"}

Take(s, n) == SubSeq(s, 1, n)

Drop(s, n) == With(s, LAMBDA x : SubSeq(x, n + 1, Len(x)))

MinOf(S) == CHOOSE x \in S : \A y \in S : x <= y

\* str::starts_with
starts_with(s, p) == With(s, LAMBDA x : Len(x) >= Len(p) /\ Take(x, Len(p)) = p)

\* str::strip_prefix(p).unwrap_or(s)
strip_prefix_or(s, p) ==
    With(s, LAMBDA x : IF starts_with(x, p) THEN Drop(x, Len(p)) ELSE x)

\* str::find: the 1-based position of the first occurrence of p in s, 0 for None
find(s, p) ==
    With(s, LAMBDA x :
        With({i \in 1..(Len(x) - Len(p) + 1) : SubSeq(x, i, i + Len(p) - 1) = p},
             LAMBDA at : IF at = {} THEN 0 ELSE MinOf(at)))

\* str::contains
contains(s, p) == find(s, p) # 0

RECURSIVE skip_while(_, _, _)
\* The first position from i on whose character is not in cs
skip_while(s, cs, i) ==
    IF i > Len(s) THEN i ELSE IF s[i] \in cs THEN skip_while(s, cs, i + 1) ELSE i

\* str::trim_start_matches(set of chars)
trim_start_matches(s, cs) == With(s, LAMBDA x : Drop(x, skip_while(x, cs, 1) - 1))

trim_start(s) == trim_start_matches(s, Whitespace)

RECURSIVE skip_back(_, _)
skip_back(s, i) ==
    IF i = 0 THEN 0 ELSE IF s[i] \in Whitespace THEN skip_back(s, i - 1) ELSE i

trim_end(s) == With(s, LAMBDA x : Take(x, skip_back(x, Len(x))))

\* str::trim
trim(s) == trim_end(trim_start(s))

\* str::split(c).next(): the part before the first c (the whole string without one)
split_first(s, c) ==
    With(s, LAMBDA x :
        With(find(x, <<c>>), LAMBDA at : IF at = 0 THEN x ELSE Take(x, at - 1)))

\* str::split(c), collected: the parts between the boundaries, a boundary
\* being the start of the string or an occurrence of c
split(s, c) ==
    With(s, LAMBDA x :
        With({0} \cup {i \in 1..Len(x) : x[i] = c}, LAMBDA bounds :
            With([b \in bounds |-> Cardinality({q \in bounds : q < b})], LAMBDA rank :
                With([k \in 1..Cardinality(bounds) |-> CHOOSE b \in bounds : rank[b] = k - 1],
                     LAMBDA at :
                        [k \in 1..Len(at) |->
                            SubSeq(x, at[k] + 1,
                                   IF k = Len(at) THEN Len(x) ELSE at[k + 1] - 1)]))))

RECURSIVE join(_, _)
\* [String]::join(sep)
join(ls, sep) ==
    IF ls = <<>> THEN <<>>
    ELSE IF Len(ls) = 1 THEN ls[1]
    ELSE ls[1] \o sep \o join(Tail(ls), sep)

strip_cr(l) ==
    With(l, LAMBDA x : IF Len(x) > 0 /\ x[Len(x)] = "\r" THEN Take(x, Len(x) - 1) ELSE x)

\* str::lines: split at "\n", a trailing "\r" of a line dropped, no last empty line
lines(s) ==
    With(split(s, "\n"), LAMBDA parts :
        With(IF parts[Len(parts)] = <<>> THEN Take(parts, Len(parts) - 1) ELSE parts,
             LAMBDA kept : [i \in 1..Len(kept) |-> strip_cr(kept[i])]))

(***************************************************************************)
(* i32: parsing and formatting                                             *)
(***************************************************************************)
I32Max == 2147483647

RECURSIVE DigitsValue(_, _, _)
\* The checked accumulation of from_str_radix: the digits are added for a
\* positive number and subtracted for a negative one, None on overflow of i32
DigitsValue(ds, acc, negative) ==
    LET d     == DigitValue(ds[1])
        q     == I32Max \div 10
        r     == I32Max % 10
        mag   == IF negative THEN 0 - acc ELSE acc
        fits  == mag < q \/ (mag = q /\ d <= (IF negative THEN r + 1 ELSE r))
        next  == IF negative THEN acc * 10 - d ELSE acc * 10 + d
    IN  IF ds = <<>> THEN Some(acc)
        ELSE IF ~fits THEN None
        ELSE With(<<Tail(ds), next>>, LAMBDA n : DigitsValue(n[1], n[2], negative))

\* str::parse::<i32>().ok(): an optional sign, then one digit or more, in range
parse_i32(s) ==
    With(s, LAMBDA x :
        LET signed == Len(x) > 0 /\ x[1] \in {"+", "-"}
        IN  With(IF signed THEN Tail(x) ELSE x, LAMBDA ds :
                IF ds = <<>> \/ \E i \in 1..Len(ds) : ds[i] \notin DigitChars
                THEN None
                ELSE DigitsValue(ds, 0, signed /\ x[1] = "-")))

RECURSIVE NatToString(_)
NatToString(n) ==
    IF n < 10 THEN <<Digits[n + 1]>> ELSE NatToString(n \div 10) \o <<Digits[(n % 10) + 1]>>

\* i32::to_string
to_string(n) == IF n < 0 THEN <<"-">> \o NatToString(0 - n) ELSE NatToString(n)

RECURSIVE ZeroPad(_, _)
ZeroPad(s, w) == IF Len(s) >= w THEN s ELSE ZeroPad(<<"0">> \o s, w)

\* format!("{:03}", n): zero-padded to width 3, the sign counted in the width
format_03(n) ==
    IF n < 0 THEN <<"-">> \o ZeroPad(NatToString(0 - n), 2) ELSE ZeroPad(NatToString(n), 3)

(***************************************************************************)
(* Frontmatter (frontmatter.rs)                                            *)
(***************************************************************************)
S_dashes == <<"-", "-", "-">>
S_close == <<"\n", "-", "-", "-">>
S_status == <<"s", "t", "a", "t", "u", "s">>
S_priority == <<"p", "r", "i", "o", "r", "i", "t", "y">>
S_assignee == <<"a", "s", "s", "i", "g", "n", "e", "e">>
S_created == <<"c", "r", "e", "a", "t", "e", "d">>
S_createdAt == <<"c", "r", "e", "a", "t", "e", "d", "A", "t">>
S_updatedAt == <<"u", "p", "d", "a", "t", "e", "d", "A", "t">>
S_completedAt == <<"c", "o", "m", "p", "l", "e", "t", "e", "d", "A", "t">>
S_tags == <<"t", "a", "g", "s">>
S_dependsOn == <<"d", "e", "p", "e", "n", "d", "s", "O", "n">>
S_transitions == <<"t", "r", "a", "n", "s", "i", "t", "i", "o", "n", "s">>
S_null == <<"n", "u", "l", "l">>
S_heading == <<"#", " ">>

\* DateTime<Utc>::to_rfc3339 of an instant on the whole second
to_rfc3339(dt) ==
    ZeroPad(NatToString(dt.year), 4) \o <<"-">> \o ZeroPad(NatToString(dt.month), 2)
    \o <<"-">> \o ZeroPad(NatToString(dt.day), 2) \o <<"T">>
    \o ZeroPad(NatToString(dt.hour), 2) \o <<":">> \o ZeroPad(NatToString(dt.minute), 2)
    \o <<":">> \o ZeroPad(NatToString(dt.second), 2) \o <<"+", "0", "0", ":", "0", "0">>

\* The number a run of decimal digits stands for
RECURSIVE NatOf(_)
NatOf(ds) == IF ds = <<>> THEN 0 ELSE NatOf(Take(ds, Len(ds) - 1)) * 10 + DigitValue(ds[Len(ds)])

\* DateTime::parse_from_rfc3339(s).ok().map(|dt| dt.with_timezone(&Utc)) on
\* texts on the whole second: yyyy-mm-ddThh:mm:ss followed by Z or by the
\* offset +00:00 (a text with another offset, which no document here holds,
\* is not decoded)
parse_from_rfc3339(s) ==
    LET digits_at == {1, 2, 3, 4, 6, 7, 9, 10, 12, 13, 15, 16, 18, 19}
        shaped == /\ Len(s) >= 20
                  /\ \A i \in digits_at : s[i] \in DigitChars
                  /\ s[5] = "-" /\ s[8] = "-" /\ s[11] \in {"T", "t", " "}
                  /\ s[14] = ":" /\ s[17] = ":"
                  /\ Drop(s, 19) \in {<<"Z">>, <<"z">>, <<"+", "0", "0", ":", "0", "0">>,
                                      <<"-", "0", "0", ":", "0", "0">>}
        dt == [year   |-> NatOf(SubSeq(s, 1, 4)),   month  |-> NatOf(SubSeq(s, 6, 7)),
               day    |-> NatOf(SubSeq(s, 9, 10)),  hour   |-> NatOf(SubSeq(s, 12, 13)),
               minute |-> NatOf(SubSeq(s, 15, 16)), second |-> NatOf(SubSeq(s, 18, 19))]
    IN  IF shaped /\ dt.month \in 1..12 /\ dt.day \in 1..31
           /\ dt.hour < 24 /\ dt.minute < 60 /\ dt.second < 60
        THEN Some(dt) ELSE None

\* Frontmatter::get_updated
get_updated(frontmatter) ==
    IF frontmatter.updated_at.some THEN parse_from_rfc3339(frontmatter.updated_at.v) ELSE None

\* Frontmatter::default()
DefaultFrontmatter ==
    [status |-> None, priority |-> None, tags |-> <<>>, assignee |-> None,
     created |-> None, created_at |-> None, updated_at |-> None,
     completed_at |-> None, depends_on |-> <<>>, transitions |-> <<>>,
     extra |-> {}]

\* The keys serde reads the Option<String> fields from (rename_all = "camelCase")
ScalarField(key) ==
    CASE key = S_status      -> "status"
      [] key = S_priority    -> "priority"
      [] key = S_assignee    -> "assignee"
      [] key = S_created     -> "created"
      [] key = S_createdAt   -> "created_at"
      [] key = S_updatedAt   -> "updated_at"
      [] key = S_completedAt -> "completed_at"
      [] OTHER               -> ""

\* The keys serde reads the Vec fields from (rename_all = "camelCase")
ListField(key) ==
    CASE key = S_tags        -> "tags"
      [] key = S_dependsOn   -> "depends_on"
      [] key = S_transitions -> "transitions"
      [] OTHER               -> ""

\* A YAML scalar as a string: the text between the quotes of a quoted scalar,
\* the text itself of a plain one
YamlScalar(raw) ==
    With(raw, LAMBDA r :
        IF Len(r) >= 2 /\ r[1] = r[Len(r)] /\ r[1] \in {"\"", "'"}
        THEN SubSeq(r, 2, Len(r) - 1)
        ELSE r)

YamlIsNull(raw) == raw = <<>> \/ raw = <<"~">> \/ raw = S_null

\* A flow sequence [a, b] of scalars; [] is the empty one
YamlFlowItems(raw) ==
    With(trim(SubSeq(raw, 2, Len(raw) - 1)), LAMBDA inner :
        IF inner = <<>> THEN <<>>
        ELSE With(split(inner, ","), LAMBDA parts :
                [i \in 1..Len(parts) |-> YamlScalar(trim(parts[i]))]))

\* The position of the ':' that ends a mapping key: the first one followed by
\* a space or by the end of the line; 0 when the line has none
YamlKeyEnd(line) ==
    With({i \in 1..Len(line) :
             line[i] = ":" /\ (i = Len(line) \/ line[i + 1] = " ")},
         LAMBDA at : IF at = {} THEN 0 ELSE MinOf(at))

YamlFail(st) == [st EXCEPT !.ok = FALSE]

\* The entry "key: raw" of the block mapping
YamlKeyValue(st, key, raw) ==
    LET sf  == ScalarField(key)
        lf  == ListField(key)
        flow == Len(raw) > 0 /\ raw[1] \in {"[", "{"}
        closed == flow /\ Len(raw) >= 2 /\ raw[1] = "[" /\ raw[Len(raw)] = "]"
    IN  IF key = <<>> THEN YamlFail(st)
        ELSE IF sf # "" THEN
            \* Option<String>: a second entry is serde's duplicate_field error,
            \* a collection where a string is expected a type error
            IF sf \in st.seen \/ flow THEN YamlFail(st)
            ELSE [st EXCEPT !.fm[sf] = IF YamlIsNull(raw) THEN None ELSE Some(YamlScalar(raw)),
                            !.seen = @ \cup {sf},
                            !.open = IF raw = <<>> THEN sf ELSE ""]
        ELSE IF lf # "" THEN
            IF lf \in st.seen THEN YamlFail(st)
            ELSE IF raw = <<>> THEN
                [st EXCEPT !.seen = @ \cup {lf}, !.open = lf]
            ELSE IF closed /\ (lf # "transitions" \/ YamlFlowItems(raw) = <<>>) THEN
                [st EXCEPT !.fm[lf] = YamlFlowItems(raw), !.seen = @ \cup {lf}, !.open = ""]
            ELSE YamlFail(st)
        ELSE
            \* any other key goes to the flattened `extra` map, a later entry
            \* of the same key replacing the earlier one
            IF flow /\ ~closed /\ raw # <<"{", "}">> THEN YamlFail(st)
            ELSE [st EXCEPT !.fm.extra = {e \in @ : e.key # key} \cup {[key |-> key, value |-> raw]},
                            !.open = IF raw = <<>> THEN "extra" ELSE ""]

\* One "key: value" line of the block mapping
YamlEntry(st, line) ==
    With(YamlKeyEnd(line), LAMBDA p :
        IF p <= 1 THEN YamlFail(st)
        ELSE With(<<Take(line, p - 1), trim(Drop(line, p))>>,
                  LAMBDA kv : YamlKeyValue(st, kv[1], kv[2])))

\* One "- item" line of a block sequence
YamlItem(st, item) ==
    IF st.open \in {"tags", "depends_on"} THEN
        [st EXCEPT !.fm[st.open] = Append(@, YamlScalar(item))]
    ELSE IF st.open = "extra" THEN st
    ELSE YamlFail(st)

YamlLine(st, line) ==
    With(trim(line), LAMBDA t :
        IF ~st.ok THEN st
        ELSE IF t = <<>> \/ t[1] = "#" THEN st
        ELSE IF t = <<"-">> \/ starts_with(trim_start(line), <<"-", " ">>)
        THEN With(trim(Tail(t)), LAMBDA item : YamlItem(st, item))
        ELSE IF line[1] = " " THEN YamlFail(st)
        ELSE IF YamlKeyEnd(line) = 0 THEN YamlFail(st)
        ELSE YamlEntry(st, line))

RECURSIVE YamlLines(_, _)
YamlLines(st, ls) ==
    IF ls = <<>> THEN st
    ELSE With(<<YamlLine(st, ls[1]), Tail(ls)>>, LAMBDA n : YamlLines(n[1], n[2]))

\* serde_yaml::from_str::<Frontmatter>(yaml) for a block mapping of one
\* "key: value" entry per line, block sequences ("- item" lines under a key)
\* and flow sequences of scalars. [ok |-> FALSE] is Err.
YamlDecode(yaml) ==
    With(lines(yaml), LAMBDA ls :
        With(YamlLines([ok |-> TRUE, fm |-> DefaultFrontmatter, open |-> "", seen |-> {}], ls),
             LAMBDA st : [ok |-> st.ok, fm |-> st.fm]))

\* Frontmatter::status_or_default
status_or_default(fm) == IF fm.status.some THEN fm.status.v ELSE <<"p", "l", "a", "n", "n", "e", "d">>

\* parse_frontmatter(content) -> (Frontmatter, String)
parse_frontmatter(content) ==
    IF ~starts_with(content, S_dashes)
    THEN [fm |-> DefaultFrontmatter, body |-> content]
    ELSE
        LET rest0 == Drop(content, 3)
            rest1 == strip_prefix_or(rest0, <<"\n">>)
        IN  With(strip_prefix_or(rest1, <<"\r", "\n">>), LAMBDA rest :
            With(find(rest, S_close), LAMBDA end_pos :
                LET yaml_content     == Take(rest, end_pos - 1)
                    markdown_content == trim_start_matches(Drop(rest, end_pos + 3), {"\n", "\r"})
                IN  IF end_pos = 0 THEN [fm |-> DefaultFrontmatter, body |-> content]
                    ELSE With(YamlDecode(yaml_content), LAMBDA decoded :
                            IF decoded.ok THEN [fm |-> decoded.fm, body |-> markdown_content]
                            ELSE [fm |-> DefaultFrontmatter, body |-> content])))

RECURSIVE FirstHeading(_)
FirstHeading(ls) ==
    IF ls = <<>> THEN None
    ELSE With(<<trim(ls[1]), Tail(ls)>>, LAMBDA n :
            IF starts_with(n[1], S_heading) THEN Some(trim(Drop(n[1], 2)))
            ELSE FirstHeading(n[2]))

\* extract_title(content) -> Option<String>
extract_title(content) == With(lines(content), LAMBDA ls : FirstHeading(ls))

(***************************************************************************)
(* The specs directories the commands run on                               *)
(***************************************************************************)
S_status_colon == <<"s", "t", "a", "t", "u", "s", ":", " ">>
S_priority_high == <<"p", "r", "i", "o", "r", "i", "t", "y", ":", " ", "h", "i", "g", "h">>
S_dependsOn_colon == <<"d", "e", "p", "e", "n", "d", "s", "O", "n", ":">>
S_item_prefix == <<"\n", " ", " ", "-", " ">>
S_doc_close == <<"\n", "-", "-", "-", "\n", "\n">>
S_planned == <<"p", "l", "a", "n", "n", "e", "d">>
S_draft == <<"d", "r", "a", "f", "t">>
S_in_progress == <<"i", "n", "-", "p", "r", "o", "g", "r", "e", "s", "s">>
S_complete == <<"c", "o", "m", "p", "l", "e", "t", "e">>
S_unclosed == <<"[">>
N_base == <<"0", "0", "1", "-", "b", "a", "s", "e">>
N_feature == <<"0", "0", "2", "-", "f", "e", "a", "t", "u", "r", "e">>
N_extension == <<"0", "0", "3", "-", "e", "x", "t", "e", "n", "s", "i", "o", "n">>
N_base_x == <<"0", "0", "1", "-", "b", "a", "s", "e", "-", "x">>
N_1x == <<"1", "x">>
N_docs == <<"d", "o", "c", "s">>
N_old == <<"0", "0", "4", "-", "o", "l", "d">>
R_001 == <<"0", "0", "1">>
R_1 == <<"1">>
R_999 == <<"9", "9", "9">>
R_1_quoted == <<"\"", " ", "1", " ", "\"">>
I_fs_base == <<"f", "s", "-", "0", "0", "1", "-", "b", "a", "s", "e">>
B_base == <<"#", " ", "B", "a", "s", "e", "\n">>
B_plain == <<"N", "o", "t", "e", "s", "\n">>

RECURSIVE DependsOnItems(_)
DependsOnItems(deps) ==
    IF deps = <<>> THEN <<>> ELSE S_item_prefix \o deps[1] \o DependsOnItems(Tail(deps))

\* The frontmatter text of a spec that declares a status and its dependencies
Front(status, deps) ==
    S_status_colon \o status
    \o (IF deps = <<>> THEN <<>> ELSE <<"\n">> \o S_dependsOn_colon \o DependsOnItems(deps))

\* format!("---\n{}\n---\n\n{}", frontmatter, content), the README.md the
\* loader's tests write
Readme(frontmatter, content) == S_dashes \o <<"\n">> \o frontmatter \o S_doc_close \o content

SpecDir(name, frontmatter, content) ==
    [name |-> name, is_dir |-> TRUE, readme |-> Some(Readme(frontmatter, content))]

\* The entries a specs root may hold
RootEntries ==
    { SpecDir(N_base, Front(S_planned, <<>>), B_base),
      [name |-> N_base, is_dir |-> FALSE, readme |-> None],
      SpecDir(N_feature, Front(S_in_progress, <<N_base>>), B_plain),
      SpecDir(N_feature, S_priority_high, B_base),
      SpecDir(N_extension, Front(S_planned, <<N_feature, R_001>>), B_base),
      SpecDir(N_extension, Front(S_unclosed, <<>>), B_plain),
      SpecDir(N_base_x, Front(S_draft, <<R_1_quoted>>), B_plain),
      SpecDir(N_1x, Front(S_complete, <<>>), B_base),
      [name |-> N_1x, is_dir |-> TRUE, readme |-> None],
      SpecDir(N_docs, Front(S_planned, <<>>), B_base) }

\* The entries of its archived/ subdirectory
ArchivedEntries ==
    { SpecDir(N_base, Front(S_complete, <<>>), B_base),
      SpecDir(N_old, Front(S_planned, <<N_1x, R_999>>), B_plain) }

\* parse_frontmatter on the README.md texts above, computed once
ParsedReadmes ==
    {<<e.readme.v, parse_frontmatter(e.readme.v)>> :
        e \in {x \in RootEntries \cup ArchivedEntries : x.readme.some}}

parse_readme(content) ==
    IF \E m \in ParsedReadmes : m[1] = content
    THEN (CHOOSE m \in ParsedReadmes : m[1] = content)[2]
    ELSE parse_frontmatter(content)

(***************************************************************************)
(* Spec loader (reader.rs)                                                 *)
(***************************************************************************)
S_fs == <<"f", "s", "-">>
S_specs == <<"s", "p", "e", "c", "s", "/">>
S_specs_archived == <<"s", "p", "e", "c", "s", "/", "a", "r", "c", "h", "i", "v", "e", "d", "/">>
S_readme == <<"/", "R", "E", "A", "D", "M", "E", ".", "m", "d">>
S_archived == <<"a", "r", "c", "h", "i", "v", "e", "d">>

\* Option<i32>::cmp, as sort_by uses it: None is less than every Some
number_le(a, b) == ~a.some \/ (b.some /\ a.v <= b.v)

\* The status left as the frontmatter declares it, in archived/ too
spec_status_declared(frontmatter, is_archived) == status_or_default(frontmatter)

\* let status = if is_archived { "archived" } else { status_or_default() }
spec_status(frontmatter, is_archived) ==
    IF is_archived THEN S_archived ELSE status_or_default(frontmatter)

\* load_spec_from_dir without the test for a declared status: a document
\* that declares none is loaded with the default one
load_spec_from_dir_defaulting(spec_name, readme, is_archived) ==
    IF ~readme.some THEN None
    ELSE With(parse_readme(readme.v), LAMBDA p :
        LET content == readme.v
            frontmatter == p.fm
        IN  IF FALSE THEN None
            ELSE Some([
            id          |-> S_fs \o spec_name,
            spec_number |-> parse_i32(split_first(spec_name, "-")),
            spec_name   |-> spec_name,
            title       |-> extract_title(p.body),
            status      |-> spec_status(frontmatter, is_archived),
            priority    |-> frontmatter.priority,
            tags        |-> frontmatter.tags,
            assignee    |-> frontmatter.assignee,
            content_md  |-> content,
            updated_at  |-> get_updated(frontmatter),
            file_path   |-> IF is_archived
                            THEN S_specs_archived \o spec_name \o S_readme
                            ELSE S_specs \o spec_name \o S_readme,
            depends_on  |-> frontmatter.depends_on,
            required_by |-> <<>>]))

\* SpecReader::load_spec_from_dir for the directory `spec_name` whose README.md
\* holds `readme` (None: no readable README.md)
load_spec_from_dir(spec_name, readme, is_archived) ==
    IF ~readme.some THEN None
    ELSE With(parse_readme(readme.v), LAMBDA p :
        LET content == readme.v
            frontmatter == p.fm
        IN  IF ~frontmatter.status.some THEN None
            ELSE Some([
            id          |-> S_fs \o spec_name,
            spec_number |-> parse_i32(split_first(spec_name, "-")),
            spec_name   |-> spec_name,
            title       |-> extract_title(p.body),
            status      |-> spec_status(frontmatter, is_archived),
            priority    |-> frontmatter.priority,
            tags        |-> frontmatter.tags,
            assignee    |-> frontmatter.assignee,
            content_md  |-> content,
            updated_at  |-> get_updated(frontmatter),
            file_path   |-> IF is_archived
                            THEN S_specs_archived \o spec_name \o S_readme
                            ELSE S_specs \o spec_name \o S_readme,
            depends_on  |-> frontmatter.depends_on,
            required_by |-> <<>>]))

\* The filter without the test of the name's first character
is_candidate_any_name(entry, is_archived) ==
    /\ entry.is_dir
    /\ ~(entry.name = S_archived /\ ~is_archived)

\* The filter of load_specs_from_dir on one directory entry
is_candidate(entry, is_archived) ==
    /\ entry.is_dir
    /\ ~(entry.name = S_archived /\ ~is_archived)
    /\ Len(entry.name) > 0
    /\ entry.name[1] \in DigitChars

RECURSIVE load_specs_from_dir(_, _, _)
\* SpecReader::load_specs_from_dir: the entries in the order read_dir yields them
load_specs_from_dir(entries, is_archived, acc) ==
    LET entry == entries[1]
    IN  IF entries = <<>> THEN acc
        ELSE IF ~is_candidate(entry, is_archived)
        THEN load_specs_from_dir(Tail(entries), is_archived, acc)
        ELSE With(load_spec_from_dir(entry.name, entry.readme, is_archived), LAMBDA loaded :
                With(IF loaded.some THEN Append(acc, loaded.v) ELSE acc, LAMBDA next :
                    load_specs_from_dir(Tail(entries), is_archived, next)))

RECURSIVE insert_sorted(_, _)
insert_sorted(sorted, s) ==
    IF sorted = <<>> THEN <<s>>
    ELSE IF number_le(sorted[Len(sorted)].spec_number, s.spec_number) THEN Append(sorted, s)
    ELSE Append(insert_sorted(Take(sorted, Len(sorted) - 1), s), sorted[Len(sorted)])

\* The specs left in the order they were read in
unsorted(ss, acc) == acc \o ss

RECURSIVE sort_by_number(_, _)
\* specs.sort_by(|a, b| a.spec_number.cmp(&b.spec_number)): a stable sort
sort_by_number(ss, acc) ==
    IF ss = <<>> THEN acc
    ELSE With(insert_sorted(acc, ss[1]), LAMBDA next : sort_by_number(Tail(ss), next))

\* Matching by the exact slug only, without the number prefix
dependency_matches_slug_only(dep, spec_name, spec_number) == dep = spec_name

\* dependency_matches(dep, spec_name, spec_number)
dependency_matches(dep, spec_name, spec_number) ==
    IF dep = spec_name THEN TRUE
    ELSE IF ~spec_number.some THEN FALSE
    ELSE With(parse_i32(split_first(trim(dep), "-")), LAMBDA dep_num :
            dep_num.some /\ dep_num.v = spec_number.v)

\* The dependency_map of build_required_by: spec_name -> depends_on, a later
\* spec of the same name replacing the earlier one
dependency_map(ss) ==
    [name \in {ss[i].spec_name : i \in 1..Len(ss)} |->
        LET last == CHOOSE i \in 1..Len(ss) :
                        /\ ss[i].spec_name = name
                        /\ \A j \in 1..Len(ss) : ss[j].spec_name = name => j <= i
        IN  ss[last].depends_on]

\* The names of the map whose dependency list is not empty: the only ones that
\* can be pushed to a required_by
Dependents(ss) ==
    With(dependency_map(ss), LAMBDA map : {name \in DOMAIN map : map[name] # <<>>})

\* The orders a HashMap may iterate them in
HashOrders(S) ==
    {f \in [1..Cardinality(S) -> S] : \A i, j \in 1..Cardinality(S) : f[i] = f[j] => i = j}

RECURSIVE required_by_of(_, _, _)
\* The inner loops of build_required_by for one spec, the map iterated in `order`
required_by_of(spec, map, order) ==
    LET name == order[1]
        deps == map[name]
        hit  == /\ name # spec.spec_name
                /\ \E k \in 1..Len(deps) :
                       dependency_matches(deps[k], spec.spec_name, spec.spec_number)
        rest == required_by_of(spec, map, Tail(order))
    IN  IF order = <<>> THEN <<>>
        ELSE IF hit THEN <<name>> \o rest ELSE rest

\* SpecReader::build_required_by, the dependency_map iterated in `order`
build_required_by(ss, order) ==
    With(dependency_map(ss), LAMBDA map :
        [i \in 1..Len(ss) |-> [ss[i] EXCEPT !.required_by = required_by_of(ss[i], map, order)]])

\* The specs of load_all before build_required_by
load_sorted(disk) ==
    LET regular == load_specs_from_dir(disk.root, FALSE, <<>>)
        all     == IF disk.archived.some
                   THEN load_specs_from_dir(disk.archived.v, TRUE, regular)
                   ELSE regular
    IN  IF ~disk.exists THEN <<>> ELSE With(all, LAMBDA loaded : sort_by_number(loaded, <<>>))

\* SpecReader::load_all: every Vec<Spec> it may return for the directory
load_all(disk) ==
    With(load_sorted(disk), LAMBDA sorted :
        {build_required_by(sorted, order) : order \in HashOrders(Dependents(sorted))})

RECURSIVE find_first(_, _)
\* Iterator::find over the specs for the predicate given as the set of matches
find_first(ss, matching) ==
    IF ss = <<>> THEN None
    ELSE IF ss[1] \in matching THEN Some(ss[1])
    ELSE find_first(Tail(ss), matching)

SpecsOf(ss) == {ss[i] : i \in 1..Len(ss)}

\* SpecReader::load_spec on the specs load_all returned
load_spec(ss, spec_id) ==
    With(parse_i32(spec_id), LAMBDA num :
        IF num.some
        THEN find_first(ss, {s \in SpecsOf(ss) : s.spec_number = Some(num.v)})
        ELSE find_first(ss, {s \in SpecsOf(ss) :
                \/ s.spec_name = spec_id
                \/ starts_with(s.spec_name, spec_id \o <<"-">>)
                \/ s.id = spec_id
                \/ s.id = S_fs \o spec_id}))

(***************************************************************************)
(* Dependency resolver and graph builder (dependencies.rs)                 *)
(***************************************************************************)
S_Spec == <<"S", "p", "e", "c", " ">>
S_medium == <<"m", "e", "d", "i", "u", "m">>
S_dependsOnEdge == <<"d", "e", "p", "e", "n", "d", "s", "O", "n">>

\* HashMap::insert
insert(map, k, v) ==
    With(<<map, k, v>>, LAMBDA a :
        [x \in DOMAIN a[1] \cup {a[2]} |-> IF x = a[2] THEN a[3] ELSE a[1][x]])

EmptyMap == [x \in {} |-> <<>>]

\* let numbered_specs = specs.iter().filter(|s| s.spec_number.is_some())
numbered_specs(ss) == SelectSeq(ss, LAMBDA s : s.spec_number.some)

RECURSIVE spec_id_by_name(_, _)
\* The slug index: slug, zero-padded number and bare number -> id, filled in
\* the order of the numbered specs, a later insert replacing an earlier one
spec_id_by_name(numbered, map) ==
    LET spec == numbered[1]
        m1   == insert(map, spec.spec_name, spec.id)
        m2   == insert(m1, format_03(spec.spec_number.v), spec.id)
        m3   == insert(m2, to_string(spec.spec_number.v), spec.id)
    IN  IF numbered = <<>> THEN map
        ELSE With(m3, LAMBDA next : spec_id_by_name(Tail(numbered), next))

RECURSIVE spec_id_by_number(_, _)
\* The number index: number -> id
spec_id_by_number(numbered, map) ==
    IF numbered = <<>> THEN map
    ELSE With(insert(map, numbered[1].spec_number.v, numbered[1].id),
              LAMBDA next : spec_id_by_number(Tail(numbered), next))

\* resolve_dependency(dep, by_name, by_number) -> Option<String>
resolve_dependency(dep, by_name, by_number) ==
    With(trim(dep), LAMBDA trimmed :
        IF trimmed \in DOMAIN by_name THEN Some(by_name[trimmed])
        ELSE With(parse_i32(split_first(trimmed, "-")), LAMBDA num :
                IF num.some /\ num.v \in DOMAIN by_number THEN Some(by_number[num.v])
                ELSE None))

\* The DependencyNode of one numbered spec
node_of(spec) ==
    [id       |-> spec.id,
     name     |-> IF spec.title.some THEN spec.title.v
                  ELSE S_Spec \o to_string(spec.spec_number.v),
     number   |-> spec.spec_number.v,
     status   |-> spec.status,
     priority |-> IF spec.priority.some THEN spec.priority.v ELSE S_medium,
     tags     |-> spec.tags]

RECURSIVE edges_of_with_self(_, _, _, _)
\* The edges of one spec without the test that drops a reference to itself
edges_of_with_self(spec, deps, by_name, by_number) ==
    LET rest == edges_of_with_self(spec, Tail(deps), by_name, by_number)
    IN  IF deps = <<>> THEN <<>>
        ELSE With(resolve_dependency(deps[1], by_name, by_number), LAMBDA target_id :
                IF target_id.some
                THEN <<[source |-> target_id.v, target |-> spec.id, edge_type |-> S_dependsOnEdge]>> \o rest
                ELSE rest)

RECURSIVE edges_of_reversed(_, _, _, _)
\* The edges of one spec drawn from the dependent to the depended-upon
edges_of_reversed(spec, deps, by_name, by_number) ==
    LET rest == edges_of_reversed(spec, Tail(deps), by_name, by_number)
    IN  IF deps = <<>> THEN <<>>
        ELSE With(resolve_dependency(deps[1], by_name, by_number), LAMBDA target_id :
                IF target_id.some /\ target_id.v # spec.id
                THEN <<[source |-> spec.id, target |-> target_id.v, edge_type |-> S_dependsOnEdge]>> \o rest
                ELSE rest)

RECURSIVE edges_of(_, _, _, _)
\* The inner loop of the edge construction: the edges of one spec, one per
\* reference that resolves to an id other than the spec's own
edges_of(spec, deps, by_name, by_number) ==
    LET rest == edges_of(spec, Tail(deps), by_name, by_number)
    IN  IF deps = <<>> THEN <<>>
        ELSE With(resolve_dependency(deps[1], by_name, by_number), LAMBDA target_id :
                IF target_id.some /\ target_id.v # spec.id
                THEN <<[source |-> target_id.v, target |-> spec.id, edge_type |-> S_dependsOnEdge]>> \o rest
                ELSE rest)

RECURSIVE edges_from(_, _, _)
edges_from(numbered, by_name, by_number) ==
    IF numbered = <<>> THEN <<>>
    ELSE edges_of(numbered[1], numbered[1].depends_on, by_name, by_number)
         \o edges_from(Tail(numbered), by_name, by_number)

\* build_dependency_graph(specs) -> DependencyGraph
build_dependency_graph(ss) ==
    With(numbered_specs(ss), LAMBDA numbered :
        With(<<spec_id_by_name(numbered, EmptyMap), spec_id_by_number(numbered, EmptyMap)>>,
             LAMBDA maps :
                [nodes |-> [i \in 1..Len(numbered) |-> node_of(numbered[i])],
                 edges |-> edges_from(numbered, maps[1], maps[2])]))

(***************************************************************************)
(* Validation (validation.rs, constants.rs)                                *)
(***************************************************************************)

S_critical == <<"c", "r", "i", "t", "i", "c", "a", "l">>
S_high == <<"h", "i", "g", "h">>
S_low == <<"l", "o", "w">>
S_overview == <<"#", "#", " ", "O", "v", "e", "r", "v", "i", "e", "w">>
S_overview_lower == <<"#", "#", " ", "o", "v", "e", "r", "v", "i", "e", "w">>

\* The allowed statuses without "archived"
VALID_STATUSES_without_archived == {S_draft, S_planned, S_in_progress, S_complete}

VALID_STATUSES == {S_draft, S_planned, S_in_progress, S_complete, S_archived}

VALID_PRIORITIES == {S_critical, S_high, S_medium, S_low}

\* The length over which a spec is too long, and the estimates over which
\* its token count is high or moderate
MaxLines == 400
ModerateTokens == 3500
\* The high threshold taken from the moderate one
HighTokens_as_moderate == ModerateTokens
HighTokens == 5000

\* char::is_alphanumeric on the characters the documents are written in
Alphanumeric ==
    DigitChars \cup
    {"a", "b", "c", "d", "e", "f", "g", "h", "i", "j", "k", "l", "m",
     "n", "o", "p", "q", "r", "s", "t", "u", "v", "w", "x", "y", "z",
     "A", "B", "C", "D", "E", "F", "G", "H", "I", "J", "K", "L", "M",
     "N", "O", "P", "Q", "R", "S", "T", "U", "V", "W", "X", "Y", "Z"}

\* content.split_whitespace().count(): the maximal runs of non-whitespace
word_count(content) ==
    Cardinality({i \in 1..Len(content) :
        /\ content[i] \notin Whitespace
        /\ (i = 1 \/ content[i - 1] \in Whitespace)})

special_chars(content) ==
    Cardinality({i \in 1..Len(content) : content[i] \notin Alphanumeric \cup Whitespace})

\* The estimate with the special characters taken off instead of added
estimate_tokens_discounting(content) ==
    With(content, LAMBDA c : (13 * word_count(c) - 5 * special_chars(c) + 9) \div 10)

\* estimate_tokens: ceil(word_count * 1.3 + special_chars * 0.5), in tenths.
\* Both products are exact in f64 wherever their sum is a whole number, so
\* the ceiling of the f64 sum is the ceiling of the exact one.
estimate_tokens(content) ==
    With(content, LAMBDA c : (13 * word_count(c) + 5 * special_chars(c) + 9) \div 10)

Issue(severity, code, message) ==
    [severity |-> severity, code |-> code, message |-> message, line |-> None]

has_error(issues) == \E i \in DOMAIN issues : issues[i].severity = "Error"

RECURSIVE empty_dependency_issues(_)
\* One "empty-dependency" warning for each blank entry of depends_on
empty_dependency_issues(deps) ==
    IF deps = <<>> THEN <<>>
    ELSE (IF trim(deps[1]) = <<>>
          THEN <<Issue("Warning", "empty-dependency", <<>>)>> ELSE <<>>)
         \o empty_dependency_issues(Tail(deps))

\* The issues of validate_spec, in the order it pushes them
issues_of(spec, frontmatter, body, line_count, estimated_tokens) ==
    (IF ~frontmatter.status.some
     THEN <<Issue("Error", "missing-status", <<>>)>> ELSE <<>>)
    \o (IF frontmatter.status.some /\ frontmatter.status.v \notin VALID_STATUSES
        THEN <<Issue("Error", "invalid-status", <<frontmatter.status.v>>)>> ELSE <<>>)
    \o (IF frontmatter.priority.some /\ frontmatter.priority.v \notin VALID_PRIORITIES
        THEN <<Issue("Warning", "invalid-priority", <<frontmatter.priority.v>>)>> ELSE <<>>)
    \o (IF ~spec.title.some
        THEN <<Issue("Warning", "missing-title", <<>>)>> ELSE <<>>)
    \o (IF line_count > MaxLines
        THEN <<Issue("Warning", "excessive-length", <<line_count>>)>> ELSE <<>>)
    \o (IF ~(contains(body, S_overview) \/ contains(body, S_overview_lower))
        THEN <<Issue("Info", "missing-overview", <<>>)>> ELSE <<>>)
    \o empty_dependency_issues(frontmatter.depends_on)
    \o (IF estimated_tokens > HighTokens
        THEN <<Issue("Warning", "high-token-count", <<estimated_tokens>>)>>
        ELSE IF estimated_tokens > ModerateTokens
        THEN <<Issue("Info", "moderate-token-count", <<estimated_tokens>>)>>
        ELSE <<>>)

\* validate_spec with valid taken from the presence of a status alone
validate_spec_status_present(spec) ==
    With(parse_frontmatter(spec.content_md), LAMBDA p :
        With(issues_of(spec, p.fm, p.body, Len(lines(spec.content_md)),
                       estimate_tokens(spec.content_md)),
             LAMBDA issues :
                [spec_name |-> spec.spec_name,
                 valid     |-> p.fm.status.some,
                 issues    |-> issues]))

\* validate_spec(spec) -> ValidationResult
validate_spec(spec) ==
    With(parse_frontmatter(spec.content_md), LAMBDA p :
        With(issues_of(spec, p.fm, p.body, Len(lines(spec.content_md)),
                       estimate_tokens(spec.content_md)),
             LAMBDA issues :
                [spec_name |-> spec.spec_name,
                 valid     |-> ~has_error(issues),
                 issues    |-> issues]))

\* The names validate_all_specs knows: every spec's name and, of a numbered
\* spec, its number padded to three digits and unpadded
spec_names(ss) ==
    {ss[i].spec_name : i \in DOMAIN ss}
    \cup {format_03(ss[i].spec_number.v) : i \in {j \in DOMAIN ss : ss[j].spec_number.some}}
    \cup {to_string(ss[i].spec_number.v) : i \in {j \in DOMAIN ss : ss[j].spec_number.some}}

\* Whether validate_all_specs takes the reference for an existing spec
dependency_exists(dep, names) ==
    With(trim(dep), LAMBDA trimmed :
        \/ trimmed \in names
        \/ With(parse_i32(split_first(trimmed, "-")), LAMBDA num :
                num.some /\ to_string(num.v) \in names))

RECURSIVE check_dependencies_flipping(_, _, _)
\* The loop over one spec's references with a warning that makes the result
\* invalid
check_dependencies_flipping(result, deps, names) ==
    IF deps = <<>> THEN result
    ELSE With(IF trim(deps[1]) = <<>> \/ dependency_exists(deps[1], names)
              THEN result
              ELSE [result EXCEPT
                      !.issues = Append(@, Issue("Warning", "broken-dependency", <<deps[1]>>)),
                      !.valid = FALSE],
              LAMBDA next : check_dependencies_flipping(next, Tail(deps), names))

RECURSIVE check_dependencies(_, _, _)
\* The loop of validate_all_specs over the references of one spec
check_dependencies(result, deps, names) ==
    IF deps = <<>> THEN result
    ELSE With(IF trim(deps[1]) = <<>> \/ dependency_exists(deps[1], names)
              THEN result
              ELSE With(Append(result.issues, Issue("Warning", "broken-dependency", <<deps[1]>>)),
                        LAMBDA issues :
                            [result EXCEPT !.issues = issues,
                                           !.valid = IF @ /\ has_error(issues) THEN FALSE ELSE @]),
              LAMBDA next : check_dependencies(next, Tail(deps), names))

\* validate_all_specs(specs) -> Vec<ValidationResult>
validate_all_specs(ss) ==
    With(spec_names(ss), LAMBDA names :
        [i \in DOMAIN ss |->
            check_dependencies(validate_spec(ss[i]),
                               parse_frontmatter(ss[i].content_md).fm.depends_on,
                               names)])

(***************************************************************************)
(* The specs directories the commands find                                 *)
(***************************************************************************)
\* The most entries of the specs root
MaxRootDirs == 3

NamesIn(listing) == {listing[i].name : i \in 1..Len(listing)}

RECURSIVE Listings(_, _)
\* The directory listings of at most n entries of pool, no name twice, in
\* every order read_dir may yield them
Listings(pool, n) ==
    IF n = 0 THEN {<<>>}
    ELSE With(Listings(pool, n - 1), LAMBDA shorter :
            shorter \cup
            {Append(l, e) : <<l, e>> \in
                {<<l, e>> \in shorter \X pool : Len(l) = n - 1 /\ e.name \notin NamesIn(l)}})

\* What archived/ may be: absent, empty, or holding entries
ArchivedListings ==
    {None, Some(<<>>)} \cup {Some(<<e>>) : e \in ArchivedEntries}

Disks ==
    {[exists |-> FALSE, root |-> <<>>, archived |-> None]}
    \cup {[exists |-> TRUE, root |-> r, archived |-> a] :
            r \in Listings(RootEntries, MaxRootDirs), a \in ArchivedListings}

\* The identifiers get_spec_detail is asked for
Identifiers == {N_base, R_1, I_fs_base, N_1x}

\* The project ids the commands are called with; the project store holds p1
ProjectIds == {"p1", "ghost"}

\* The identifiers get_spec_dependencies_cmd is asked for
DependencyIds == {N_base, I_fs_base, N_feature, N_extension, N_old}

project_found(project_id) == project_id = "p1"

(***************************************************************************)
(* Statistics (stats.rs)                                                   *)
(***************************************************************************)
\* HashMap<String, i32> after `*map.entry(key).or_insert(0) += 1` for every
\* key of keys
counts(keys) ==
    [k \in {keys[i] : i \in DOMAIN keys} |-> Cardinality({i \in DOMAIN keys : keys[i] = k})]

\* map.get(key).copied().unwrap_or(0)
get_or_zero(map, key) == IF key \in DOMAIN map THEN map[key] ELSE 0

\* The orders in which into_iter() may yield the entries of a HashMap
IterationOrders(map) ==
    {o \in [1..Cardinality(DOMAIN map) -> DOMAIN map] :
        \A i, j \in DOMAIN o : i # j => o[i] # o[j]}

\* The entries as into_iter() yields them, without the sort
in_iteration_order(map, order) ==
    [k \in DOMAIN order |-> [key |-> order[k], count |-> map[order[k]]]]

\* sort_by(|a, b| b.count.cmp(&a.count)) on the entries in iteration order:
\* a stable sort, the larger count first
sort_by_count(map, order) ==
    With([i \in DOMAIN order |->
            Cardinality({j \in DOMAIN order : map[order[j]] > map[order[i]]})
            + Cardinality({j \in 1..i : map[order[j]] = map[order[i]]})],
         LAMBDA place :
            [k \in DOMAIN order |->
                With(order[CHOOSE i \in DOMAIN order : place[i] = k],
                     LAMBDA key : [key |-> key, count |-> map[key]])])

\* num / den without rounding: the digits after the kept ones are cut off
truncated(num, den) == num \div den

\* (num as f64 / den as f64).round() for num >= 0 and den > 0: the nearest
\* integer, a half rounded up. The f64 quotient of a slice shorter than 8
\* specs never lies so close to a half that its error decides the rounding
rounded(num, den) == (2 * num + den) \div (2 * den)

\* The tags of all specs together, one after another
RECURSIVE all_tags(_)
all_tags(ss) == IF ss = <<>> THEN <<>> ELSE ss[1].tags \o all_tags(Tail(ss))

\* calculate_stats(specs) -> StatsResult, for the orders in which the two
\* HashMaps yield their entries. completion_rate is held in tenths of a
\* percent and avg_tags_per_spec in hundredths, as round() leaves them
\* before the last division
calculate_stats(ss, status_order, priority_order) ==
    LET total_specs    == Len(ss)
        status_counts  == counts([i \in DOMAIN ss |-> ss[i].status])
        with_priority  == SelectSeq(ss, LAMBDA spec : spec.priority.some)
        priority_counts == counts([i \in DOMAIN with_priority |-> with_priority[i].priority.v])
        tags           == all_tags(ss)
        complete_count == get_or_zero(status_counts, S_complete)
    IN  [total_projects    |-> 1,
         total_specs       |-> total_specs,
         specs_by_status   |-> sort_by_count(status_counts, status_order),
         specs_by_priority |-> sort_by_count(priority_counts, priority_order),
         completion_rate   |-> IF total_specs > 0
                               THEN rounded(complete_count * 100 * 10, total_specs)
                               ELSE 0,
         active_specs      |-> get_or_zero(status_counts, S_draft)
                               + get_or_zero(status_counts, S_planned)
                               + get_or_zero(status_counts, S_in_progress),
         total_tags        |-> Cardinality({tags[i] : i \in DOMAIN tags}),
         avg_tags_per_spec |-> IF total_specs > 0
                               THEN rounded(Len(tags) * 100, total_specs)
                               ELSE 0,
         specs_with_dependencies |-> Cardinality({i \in DOMAIN ss : ss[i].depends_on # <<>>})]

(***************************************************************************)
(* get_spec_dependencies (dependencies.rs)                                 *)
(***************************************************************************)
\* The DependencyInfo of one spec
DependencyInfo(s) == [spec_name |-> s.spec_name, title |-> s.title, status |-> s.status]

RECURSIVE spec_map(_, _)
\* The one index of get_spec_dependencies: slug of every spec, and for a
\* numbered spec its zero-padded and its bare number, -> the spec, filled in
\* the order of all_specs, a later insert replacing an earlier one
spec_map(all_specs, map) ==
    LET s  == all_specs[1]
        m1 == insert(map, s.spec_name, s)
        m2 == insert(m1, format_03(s.spec_number.v), s)
        m3 == insert(m2, to_string(s.spec_number.v), s)
    IN  IF all_specs = <<>> THEN map
        ELSE With(IF s.spec_number.some THEN m3 ELSE m1,
                  LAMBDA next : spec_map(Tail(all_specs), next))

\* The closure over depends_on without the number prefix: a reference is
\* looked up as it is written only
resolve_in_map_direct_only(dep, map) ==
    With(trim(dep), LAMBDA trimmed :
        IF trimmed \in DOMAIN map THEN Some(DependencyInfo(map[trimmed])) ELSE None)

\* The closure over depends_on: the direct match first, then the number prefix
resolve_in_map(dep, map) ==
    With(trim(dep), LAMBDA trimmed :
        IF trimmed \in DOMAIN map THEN Some(DependencyInfo(map[trimmed]))
        ELSE With(parse_i32(split_first(trimmed, "-")), LAMBDA num :
                IF num.some /\ to_string(num.v) \in DOMAIN map
                THEN Some(DependencyInfo(map[to_string(num.v)]))
                ELSE None))

\* The closure over required_by: the name as it is stored
materialize(name, map) ==
    IF name \in DOMAIN map THEN Some(DependencyInfo(map[name])) ELSE None

RECURSIVE filter_map(_)
\* Iterator::filter_map(..).collect(): the Some values in order
filter_map(options) ==
    IF options = <<>> THEN <<>>
    ELSE (IF options[1].some THEN <<options[1].v>> ELSE <<>>) \o filter_map(Tail(options))

\* get_spec_dependencies(spec, all_specs) -> SpecDependencies
get_spec_dependencies(spec, all_specs) ==
    With(spec_map(all_specs, EmptyMap), LAMBDA map :
        [depends_on  |-> filter_map([i \in 1..Len(spec.depends_on) |->
                                        resolve_in_map(spec.depends_on[i], map)]),
         required_by |-> filter_map([i \in 1..Len(spec.required_by) |->
                                        materialize(spec.required_by[i], map)])])

\* specs.iter().find(..) of get_spec_dependencies_cmd
find_spec(ss, spec_id) ==
    With({i \in 1..Len(ss) : \/ ss[i].spec_name = spec_id
                             \/ ss[i].id = spec_id
                             \/ ss[i].id = S_fs \o spec_id},
         LAMBDA at : IF at = {} THEN None ELSE Some(ss[MinOf(at)]))

(***************************************************************************)
(* The commands (commands.rs)                                              *)
(***************************************************************************)
EmptyGraph == [nodes |-> <<>>, edges |-> <<>>]
NoLookup == [spec_id |-> <<>>, spec |-> None]
NotParsed == None
NoDependencies == None
NoStats == None
NoDisk == [exists |-> FALSE, root |-> <<>>, archived |-> None]
NoRequest == [project_id |-> "", spec_id |-> <<>>, new_status |-> <<>>, force |-> None]
NoOutcome == [ok |-> FALSE, err |-> "", spec |-> None]

Init ==
    /\ fs \in Disks
    /\ cmd = "idle"
    /\ specs = <<>>
    /\ graph = EmptyGraph
    /\ found = NoLookup
    /\ env = None
    /\ children = <<>>
    /\ threads = <<>>
    /\ manager = UiServerManager_new
    /\ payload = NoCommand
    /\ config = DesktopConfig_default
    /\ called = NoCall
    /\ store = ProjectsFile_default
    /\ earlier = <<>>
    /\ estimates = <<>>
    /\ stats = NoStats
    /\ dependencies = NoDependencies
    /\ before = NoDisk
    /\ outcome = NoOutcome
    /\ request = NoRequest
    /\ results = <<>>
    /\ doc = <<>>
    /\ parsed = NotParsed

\* Any command for a project the store does not hold: Err("Project not found")
ProjectNotFound ==
    /\ cmd = "idle"
    /\ \E project_id \in ProjectIds : ~project_found(project_id)
    /\ cmd' = "project_not_found"
    /\ UNCHANGED <<fs, specs, graph, found, doc, parsed, results, request, outcome, before, dependencies, stats, estimates, earlier, store, called, config, payload, manager, threads, children, env>>

\* get_specs: load_all
GetSpecs ==
    /\ cmd = "idle"
    /\ \E project_id \in ProjectIds : project_found(project_id)
    /\ cmd' = "get_specs"
    /\ specs' \in load_all(fs)
    /\ UNCHANGED <<fs, graph, found, doc, parsed, results, request, outcome, before, dependencies, stats, estimates, earlier, store, called, config, payload, manager, threads, children, env>>

\* get_specs once more on the directory as it is: a second load pass, the
\* result of the first kept for comparison
GetSpecsAgain ==
    /\ cmd = "get_specs"
    /\ earlier' = specs
    /\ specs' \in load_all(fs)
    /\ cmd' = "get_specs_again"
    /\ UNCHANGED <<fs, graph, found, doc, parsed, results, request, outcome, before, dependencies, stats, estimates, store, called, config, payload, manager, threads, children, env>>

\* get_dependency_graph: load_all, then build_dependency_graph
GetDependencyGraph ==
    /\ cmd = "idle"
    /\ \E project_id \in ProjectIds : project_found(project_id)
    /\ cmd' = "get_dependency_graph"
    /\ specs' \in load_all(fs)
    /\ graph' = build_dependency_graph(specs')
    /\ UNCHANGED <<fs, found, doc, parsed, results, request, outcome, before, dependencies, stats, estimates, earlier, store, called, config, payload, manager, threads, children, env>>

\* get_spec_detail: load_spec, which loads all specs and picks one
GetSpecDetail ==
    /\ cmd = "idle"
    /\ \E project_id \in ProjectIds : project_found(project_id)
    /\ cmd' = "get_spec_detail"
    /\ specs' \in load_all(fs)
    /\ \E spec_id \in Identifiers :
        found' = [spec_id |-> spec_id, spec |-> load_spec(specs', spec_id)]
    /\ UNCHANGED <<fs, graph, doc, parsed, results, request, outcome, before, dependencies, stats, estimates, earlier, store, called, config, payload, manager, threads, children, env>>

\* get_spec_dependencies_cmd: loads all specs, finds one and resolves its
\* references against the loaded specs
GetSpecDependencies ==
    /\ cmd = "idle"
    /\ \E project_id \in ProjectIds : project_found(project_id)
    /\ cmd' = "get_spec_dependencies"
    /\ specs' \in load_all(fs)
    /\ \E spec_id \in DependencyIds :
        \E spec \in {find_spec(specs', spec_id)} :
            /\ found' = [spec_id |-> spec_id, spec |-> spec]
            /\ dependencies' = IF spec.some THEN Some(get_spec_dependencies(spec.v, specs'))
                               ELSE None
    /\ UNCHANGED <<fs, graph, doc, parsed, results, request, outcome, before, stats, estimates, earlier, store, called, config, payload, manager, threads, children, env>>

\* The command's result goes to the caller and its values are dropped: the
\* commands keep nothing between two calls but the directory itself
Return ==
    /\ cmd # "idle"
    /\ cmd' = "idle"
    /\ specs' = <<>>
    /\ graph' = EmptyGraph
    /\ found' = NoLookup
    /\ results' = <<>>
    /\ request' = NoRequest
    /\ outcome' = NoOutcome
    /\ before' = NoDisk
    /\ dependencies' = NoDependencies
    /\ stats' = NoStats
    /\ estimates' = <<>>
    /\ earlier' = <<>>
    /\ UNCHANGED <<fs, doc, parsed, store, called, config, payload, manager, threads, children, env>>

Next ==
    \/ ProjectNotFound
    \/ GetSpecs
    \/ GetSpecsAgain
    \/ GetDependencyGraph
    \/ GetSpecDetail
    \/ GetSpecDependencies
    \/ Return

Spec == Init /\ [][Next]_vars

(***************************************************************************)
(* update_spec_status (commands.rs)                                        *)
(***************************************************************************)
S_updated_at == <<"u", "p", "d", "a", "t", "e", "d", "_", "a", "t">>

Ok(v) == [ok |-> TRUE, v |-> v]
Err(e) == [ok |-> FALSE, err |-> e]

\* update_frontmatter_field(content, field, value) -> Result<String, String>
update_frontmatter_field(content, field, value) ==
    IF ~starts_with(content, S_dashes) THEN Err("No frontmatter found")
    ELSE With(strip_prefix_or(Drop(content, 3), <<"\n">>), LAMBDA rest :
        With(find(rest, S_close), LAMBDA end_pos :
            IF end_pos = 0 THEN Err("Malformed frontmatter")
            ELSE
            LET yaml_content     == Take(rest, end_pos - 1)
                markdown_content == Drop(rest, end_pos + 3)
                field_pattern    == field \o <<":">>
                new_line         == field \o <<":", " ">> \o value
            IN  With(lines(yaml_content), LAMBDA ls :
                    With({i \in DOMAIN ls : starts_with(trim_start(ls[i]), field_pattern)},
                         LAMBDA hits :
                            Ok(S_dashes \o <<"\n">>
                               \o (IF hits # {}
                                   THEN join([ls EXCEPT ![MinOf(hits)] = new_line], <<"\n">>)
                                   ELSE yaml_content \o <<"\n">> \o new_line)
                               \o S_close \o markdown_content)))))

\* The policy that lets every request through
skips_planned_allowed(status, new_status, force) == FALSE

\* Whether the request skips the planned stage: from draft to in-progress or
\* complete, force being absent or false
skips_planned(status, new_status, force) ==
    /\ status = S_draft
    /\ new_status \in {S_in_progress, S_complete}
    /\ ~(force.some /\ force.v)

\* The entries of the specs root that spec_path names: the directory
\* <specs_dir>/<spec_name>
at_spec_path(disk, spec_name) ==
    {i \in DOMAIN disk.root : disk.root[i].name = spec_name /\ disk.root[i].is_dir}

\* fs::write(&spec_path, &updated_content)
write(disk, i, content) == [disk EXCEPT !.root[i].readme = Some(content)]

\* update_spec_status from its first line to fs::write, `loaded` being what
\* load_all returns: the error it returns ("" for none) and the directory
\* it leaves
update_spec_status(disk, loaded, project_id, spec_id, new_status, force, now) ==
    IF new_status \notin VALID_STATUSES THEN [err |-> "Invalid status", disk |-> disk]
    ELSE IF ~project_found(project_id) THEN [err |-> "Project not found", disk |-> disk]
    ELSE With(load_spec(loaded, spec_id), LAMBDA spec :
        IF ~spec.some THEN [err |-> "Spec not found", disk |-> disk]
        ELSE IF skips_planned(spec.v.status, new_status, force)
        THEN [err |-> "Cannot skip 'planned' stage. Use force to override.", disk |-> disk]
        ELSE With(at_spec_path(disk, spec.v.spec_name), LAMBDA at :
            IF at = {} \/ \E i \in at : ~disk.root[i].readme.some
            THEN [err |-> "Failed to read spec file", disk |-> disk]
            ELSE With(CHOOSE i \in at : TRUE, LAMBDA i :
                With(update_frontmatter_field(disk.root[i].readme.v, S_status, new_status),
                     LAMBDA first :
                        IF ~first.ok THEN [err |-> first.err, disk |-> disk]
                        ELSE With(update_frontmatter_field(first.v, S_updated_at,
                                                           <<"'">> \o now \o <<"'">>),
                                  LAMBDA second :
                                    IF ~second.ok THEN [err |-> second.err, disk |-> disk]
                                    ELSE [err |-> "", disk |-> write(disk, i, second.v)])))))

(***************************************************************************)
(* parse_frontmatter on documents of every shape                           *)
(***************************************************************************)
O_lf == <<"-", "-", "-", "\n">>
O_crlf == <<"-", "-", "-", "\r", "\n">>
O_glued == <<"-", "-", "-">>
O_four == <<"-", "-", "-", "-", "\n">>
O_space == <<" ", "-", "-", "-", "\n">>
K_planned == <<"s", "t", "a", "t", "u", "s", ":", " ", "p", "l", "a", "n", "n", "e", "d">>
K_draft_high == <<"s", "t", "a", "t", "u", "s", ":", " ", "d", "r", "a", "f", "t", "\n", "p", "r", "i", "o", "r", "i", "t", "y", ":", " ", "h", "i", "g", "h">>
K_unclosed == <<"s", "t", "a", "t", "u", "s", ":", " ", "[">>
K_no_status == <<"p", "r", "i", "o", "r", "i", "t", "y", ":", " ", "h", "i", "g", "h">>
K_dash_key == <<"s", "t", "a", "t", "u", "s", ":", " ", "p", "l", "a", "n", "n", "e", "d", "\n", "-", "-", "-", "x", ":", " ", "1">>
K_rule == <<"s", "t", "a", "t", "u", "s", ":", " ", "p", "l", "a", "n", "n", "e", "d", "\n", "-", "-", "-", "-">>
K_depends_on == <<"s", "t", "a", "t", "u", "s", ":", " ", "i", "n", "-", "p", "r", "o", "g", "r", "e", "s", "s", "\n", "d", "e", "p", "e", "n", "d", "s", "_", "o", "n", ":", "\n", " ", " ", "-", " ", "0", "0", "1", "-", "i", "n", "i", "t", "\n", " ", " ", "-", " ", "0", "0", "2", "-", "s", "e", "t", "u", "p">>
C_lf == <<"\n", "-", "-", "-", "\n">>
C_eof == <<"\n", "-", "-", "-">>
C_four == <<"\n", "-", "-", "-", "-", "\n">>
C_x == <<"\n", "-", "-", "-", "x", "\n">>
C_none == <<"\n">>
C_two == <<"\n", "-", "-", "\n">>
T_title == <<"#", " ", "T", "\n">>
T_later == <<"\n", "b", "o", "d", "y", "\n", "-", "-", "-", "\n">>

\* What a document opens with, holds as its metadata, closes the metadata
\* with, and continues with
Openings == {O_lf, O_crlf, O_glued, O_four, O_space, <<>>}
Blocks ==
    {K_planned, K_draft_high, K_unclosed, K_no_status, K_dash_key, K_rule,
     K_depends_on}
Closings == {C_lf, C_eof, C_four, C_x, C_none, C_two}
Bodies == {<<>>, T_title, T_later}

Documents == {o \o k \o c \o b : o \in Openings, k \in Blocks, c \in Closings, b \in Bodies}

InitParse ==
    /\ doc \in Documents
    /\ parsed = NotParsed
    /\ fs = NoDisk
    /\ cmd = "idle"
    /\ specs = <<>>
    /\ graph = EmptyGraph
    /\ found = NoLookup
    /\ env = None
    /\ children = <<>>
    /\ threads = <<>>
    /\ manager = UiServerManager_new
    /\ payload = NoCommand
    /\ config = DesktopConfig_default
    /\ called = NoCall
    /\ store = ProjectsFile_default
    /\ earlier = <<>>
    /\ estimates = <<>>
    /\ stats = NoStats
    /\ dependencies = NoDependencies
    /\ before = NoDisk
    /\ outcome = NoOutcome
    /\ request = NoRequest
    /\ results = <<>>

\* parse_frontmatter(&content)
ParseFrontmatter ==
    /\ parsed = NotParsed
    /\ parsed' = Some(parse_frontmatter(doc))
    /\ UNCHANGED <<doc, fs, cmd, specs, graph, found, results, request, outcome, before, dependencies, stats, estimates, earlier, store, called, config, payload, manager, threads, children, env>>

NextParse == ParseFrontmatter

SpecParse == InitParse /\ [][NextParse]_vars

(***************************************************************************)
(* validate_spec and validate_all_specs on slices of specs                 *)
(***************************************************************************)
N_long == <<"0", "0", "5", "-", "l", "o", "n", "g">>
N_edge == <<"0", "0", "6", "-", "e", "d", "g", "e">>
N_none == <<"0", "0", "7", "-", "n", "o", "n", "e">>
S_done == <<"d", "o", "n", "e">>
S_priority_urgent == <<"p", "r", "i", "o", "r", "i", "t", "y", ":", " ", "u", "r", "g", "e", "n", "t">>
R_1_other == <<"1", "-", "o", "t", "h", "e", "r">>
R_empty == <<"\"", "\"">>
B_overview == <<"#", " ", "B", "a", "s", "e", "\n", "\n", "#", "#", " ", "O", "v", "e", "r", "v", "i", "e", "w", "\n">>
B_long == <<"#", " ", "L", "o", "n", "g", "\n">>

\* n empty lines
BlankLines(n) == [i \in 1..n |-> "\n"]

\* The lines of a README.md before the blank ones: the three of the
\* frontmatter block, the empty line after it and the heading
HeadLines == Len(lines(Readme(Front(S_draft, <<>>), B_long)))

\* The most specs of a slice
MaxValidated == 2

\* The documents of the specs handed to the validator: one without issues,
\* one with a reference to no spec, one without a number, one with a status
\* and a priority outside the allowed sets and a blank reference, one of
\* 401 lines, one of 400 lines, one without a status that refers to no spec
ValidatedDocuments ==
    { [name |-> N_base,
       readme |-> Readme(S_status_colon \o S_planned \o <<"\n">> \o S_priority_high, B_overview)],
      [name |-> N_feature, readme |-> Readme(Front(S_in_progress, <<N_base, R_999>>), B_plain)],
      [name |-> N_1x, readme |-> Readme(Front(S_archived, <<>>), B_base)],
      [name |-> N_old,
       readme |-> Readme(S_priority_urgent \o <<"\n">> \o Front(S_done, <<N_1x, R_empty, R_1_other>>),
                         B_base)],
      [name |-> N_long,
       readme |-> Readme(Front(S_draft, <<>>), B_long \o BlankLines(MaxLines + 1 - HeadLines))],
      [name |-> N_edge,
       readme |-> Readme(Front(S_complete, <<>>), B_long \o BlankLines(MaxLines - HeadLines))],
      [name |-> N_none,
       readme |-> Readme(S_priority_high \o <<"\n">> \o S_dependsOn_colon \o DependsOnItems(<<R_999>>),
                         B_base)] }

\* The Spec of a document: the fields as load_spec_from_dir fills them, the
\* status defaulted where the document declares none
spec_with_content(spec_name, content) ==
    With(parse_frontmatter(content), LAMBDA p :
        [id          |-> S_fs \o spec_name,
         spec_number |-> parse_i32(split_first(spec_name, "-")),
         spec_name   |-> spec_name,
         title       |-> extract_title(p.body),
         status      |-> status_or_default(p.fm),
         priority    |-> p.fm.priority,
         tags        |-> p.fm.tags,
         assignee    |-> p.fm.assignee,
         content_md  |-> content,
         updated_at  |-> get_updated(p.fm),
         file_path   |-> S_specs \o spec_name \o S_readme,
         depends_on  |-> p.fm.depends_on,
         required_by |-> <<>>])

ValidatedSpecs == {<<d.name, spec_with_content(d.name, d.readme)>> : d \in ValidatedDocuments}

\* The slices of at most MaxValidated specs, no name twice
ValidatedSlices ==
    {[i \in DOMAIN l |-> (CHOOSE v \in ValidatedSpecs : v[1] = l[i].name)[2]] :
        l \in Listings(ValidatedDocuments, MaxValidated)}

InitValidate ==
    /\ specs \in ValidatedSlices
    /\ results = <<>>
    /\ cmd = "idle"
    /\ fs = NoDisk
    /\ graph = EmptyGraph
    /\ found = NoLookup
    /\ env = None
    /\ children = <<>>
    /\ threads = <<>>
    /\ manager = UiServerManager_new
    /\ payload = NoCommand
    /\ config = DesktopConfig_default
    /\ called = NoCall
    /\ store = ProjectsFile_default
    /\ earlier = <<>>
    /\ estimates = <<>>
    /\ stats = NoStats
    /\ dependencies = NoDependencies
    /\ before = NoDisk
    /\ outcome = NoOutcome
    /\ request = NoRequest
    /\ doc = <<>>
    /\ parsed = NotParsed

\* validate_spec(&spec) on one spec of the slice
ValidateSpec ==
    /\ cmd = "idle"
    /\ \E i \in DOMAIN specs :
        /\ results' = <<validate_spec(specs[i])>>
        /\ found' = [spec_id |-> specs[i].spec_name, spec |-> Some(specs[i])]
    /\ cmd' = "validate_spec"
    /\ UNCHANGED <<fs, specs, graph, doc, parsed, request, outcome, before, dependencies, stats, estimates, earlier, store, called, config, payload, manager, threads, children, env>>

\* validate_all_specs(&specs)
ValidateAllSpecs ==
    /\ cmd = "idle"
    /\ results' = validate_all_specs(specs)
    /\ cmd' = "validate_all_specs"
    /\ UNCHANGED <<fs, specs, graph, found, doc, parsed, request, outcome, before, dependencies, stats, estimates, earlier, store, called, config, payload, manager, threads, children, env>>

NextValidate == ValidateSpec \/ ValidateAllSpecs

SpecValidate == InitValidate /\ [][NextValidate]_vars

(***************************************************************************)
(* Histories of update_spec_status calls on a specs directory              *)
(***************************************************************************)
D_crlf == <<"-", "-", "-", "\r", "\n", "s", "t", "a", "t", "u", "s", ":", " ", "d", "r", "a", "f", "t", "\r", "\n", "p", "r", "i", "o", "r", "i", "t", "y", ":", " ", "h", "i", "g", "h", "\r", "\n", "-", "-", "-", "\r", "\n", "#", " ", "B", "a", "s", "e", "\r", "\n">>
D_glued == <<"-", "-", "-", "s", "t", "a", "t", "u", "s", ":", " ", "d", "r", "a", "f", "t", "\n", "-", "-", "-", "\n", "\n", "#", " ", "B", "a", "s", "e", "\n">>
T_1 == [year |-> 2026, month |-> 1, day |-> 1, hour |-> 0, minute |-> 0, second |-> 0]
T_2 == [year |-> 2026, month |-> 11, day |-> 5, hour |-> 23, minute |-> 59, second |-> 7]

\* The most entries of the specs root of an updated project
MaxUpdatedDirs == 1

\* The directories of the specs root: a draft, a draft with CRLF line ends,
\* a draft whose first line goes on after the ---, and a README.md without
\* a status whose name an archived spec bears too
UpdatedEntries ==
    { SpecDir(N_base, Front(S_draft, <<>>) \o <<"\n">> \o S_priority_high, B_base),
      [name |-> N_feature, is_dir |-> TRUE, readme |-> Some(D_crlf)],
      [name |-> N_extension, is_dir |-> TRUE, readme |-> Some(D_glued)],
      SpecDir(N_old, S_priority_high, B_plain) }

UpdatedArchived == {None, Some(<<SpecDir(N_old, Front(S_complete, <<>>), B_base)>>)}

UpdatedDisks ==
    {[exists |-> TRUE, root |-> r, archived |-> a] :
        r \in Listings(UpdatedEntries, MaxUpdatedDirs), a \in UpdatedArchived}

\* The arguments of the calls; Utc::now() is one of two instants
UpdateIds == {N_base, N_feature, N_extension, N_old, R_999}
NewStatuses == {S_planned, S_in_progress, S_complete, S_done}
Forces == {None, Some(TRUE)}
Timestamps == {T_1, T_2}

InitUpdate ==
    /\ fs \in UpdatedDisks
    /\ cmd = "idle"
    /\ request = NoRequest
    /\ outcome = NoOutcome
    /\ specs = <<>>
    /\ graph = EmptyGraph
    /\ found = NoLookup
    /\ env = None
    /\ children = <<>>
    /\ threads = <<>>
    /\ manager = UiServerManager_new
    /\ payload = NoCommand
    /\ config = DesktopConfig_default
    /\ called = NoCall
    /\ store = ProjectsFile_default
    /\ earlier = <<>>
    /\ estimates = <<>>
    /\ stats = NoStats
    /\ dependencies = NoDependencies
    /\ before = NoDisk
    /\ results = <<>>
    /\ doc = <<>>
    /\ parsed = NotParsed

\* update_spec_status: the checks and the write, then the reload
UpdateSpecStatus ==
    /\ cmd = "idle"
    /\ \E project_id \in ProjectIds, spec_id \in UpdateIds, new_status \in NewStatuses,
          force \in Forces, now \in Timestamps, loaded \in load_all(fs) :
        /\ request' = [project_id |-> project_id, spec_id |-> spec_id,
                       new_status |-> new_status, force |-> force]
        /\ before' = fs
        /\ \E r \in {update_spec_status(fs, loaded, project_id, spec_id, new_status, force,
                                            to_rfc3339(now))} :
            /\ fs' = r.disk
            /\ IF r.err # "" THEN outcome' = [ok |-> FALSE, err |-> r.err, spec |-> None]
               ELSE \E reloaded \in load_all(r.disk) :
                    \E spec \in {load_spec(reloaded, spec_id)} :
                        outcome' = IF spec.some
                                   THEN [ok |-> TRUE, err |-> "", spec |-> spec]
                                   ELSE [ok |-> FALSE,
                                         err |-> "Failed to reload spec after update",
                                         spec |-> None]
    /\ cmd' = "update_spec_status"
    /\ UNCHANGED <<specs, graph, found, doc, parsed, results, dependencies, stats, estimates, earlier, store, called, config, payload, manager, threads, children, env>>

NextUpdate == UpdateSpecStatus \/ Return

SpecUpdate == InitUpdate /\ [][NextUpdate]_vars

(***************************************************************************)
(* Delimiter lines, as the specification words them                        *)
(***************************************************************************)
\* The text has a line break, or its end, at position i
AtLineEnd(text, i) ==
    \/ i > Len(text)
    \/ text[i] = "\n"
    \/ (text[i] = "\r" /\ i < Len(text) /\ text[i + 1] = "\n")

\* The first line of the text is the delimiter and nothing else
BeginsWithDelimiterLine(text) == starts_with(text, S_dashes) /\ AtLineEnd(text, 4)

\* The positions of the line breaks that are followed by a line holding the
\* delimiter and nothing else
ClosingLines(text) ==
    {i \in 4..Len(text) :
        /\ text[i] = "\n"
        /\ starts_with(Drop(text, i), S_dashes)
        /\ AtLineEnd(text, i + 4)}

HasClosingLine(text) == ClosingLines(text) # {}

\* The text between the opening delimiter line and the first closing one
BlockBetweenLines(text) ==
    LET first_break == find(text, <<"\n">>)
        close       == MinOf(ClosingLines(text))
    IN  SubSeq(text, first_break + 1, close - 1)

\* The text after the first closing delimiter line, leading line breaks dropped
BodyAfterClosingLine(text) ==
    trim_start_matches(Drop(text, MinOf(ClosingLines(text)) + 3), {"\n", "\r"})

Fallback(text) == [fm |-> DefaultFrontmatter, body |-> text]

(***************************************************************************)
(* Claims on parse_frontmatter, checked under SpecParse                    *)
(***************************************************************************)
\* C9: parse returns the default Frontmatter with the original text
\* unchanged for every text that does not begin with a delimiter line, has
\* no closing delimiter line, or whose metadata block fails to decode
C9_ParseFallsBack ==
    parsed.some =>
        ((\/ ~BeginsWithDelimiterLine(doc)
          \/ ~HasClosingLine(doc)
          \/ ~YamlDecode(BlockBetweenLines(doc)).ok)
            => parsed.v = Fallback(doc))

\* C10: for a text that begins with a delimiter line, the metadata block
\* ends at the first later line that consists solely of ---: a line that
\* only begins with --- does not close it, and the body is the text after
\* that closing line
C10_BlockEndsAtDelimiterLine ==
    (parsed.some /\ BeginsWithDelimiterLine(doc) /\ HasClosingLine(doc)) =>
        LET decoded == YamlDecode(BlockBetweenLines(doc))
        IN  parsed.v = IF decoded.ok
                       THEN [fm |-> decoded.fm, body |-> BodyAfterClosingLine(doc)]
                       ELSE Fallback(doc)

\* The entries a metadata block declares under a key: the "  - entry" lines
\* that follow the line "key:", in the order they are written
S_depends_on == <<"d", "e", "p", "e", "n", "d", "s", "_", "o", "n">>
S_entry == <<" ", " ", "-", " ">>

RECURSIVE EntryLines(_)
EntryLines(ls) ==
    IF ls = <<>> \/ ~starts_with(ls[1], S_entry) THEN <<>>
    ELSE <<Drop(ls[1], 4)>> \o EntryLines(Tail(ls))

DeclaredUnder(block, key) ==
    LET ls == lines(block)
        at == {i \in 1..Len(ls) : ls[i] = key \o <<":">>}
    IN  IF at = {} THEN <<>> ELSE EntryLines(Drop(ls, MinOf(at)))

\* C11: a metadata block that declares its dependency list under the key
\* depends_on is parsed into Frontmatter.depends_on, the entries in the
\* order they are declared
C11_DependsOnKeyParsed ==
    (/\ parsed.some
     /\ BeginsWithDelimiterLine(doc)
     /\ HasClosingLine(doc)
     /\ DeclaredUnder(BlockBetweenLines(doc), S_depends_on) # <<>>)
        => parsed.v.fm.depends_on = DeclaredUnder(BlockBetweenLines(doc), S_depends_on)

(***************************************************************************)
(* calculate_stats on slices of specs                                      *)
(***************************************************************************)
S_architecture == <<"a", "r", "c", "h", "i", "t", "e", "c", "t", "u", "r", "e">>
S_ui == <<"u", "i">>
S_ux == <<"u", "x">>
S_docs == <<"d", "o", "c", "s">>
S_test == <<"t", "e", "s", "t">>
S_test_spec == <<"t", "e", "s", "t", "-", "s", "p", "e", "c">>
S_Test == <<"T", "e", "s", "t">>
S_test_path == <<"s", "p", "e", "c", "s", "/", "t", "e", "s", "t", "/", "R", "E", "A", "D", "M", "E", ".", "m", "d">>

\* create_test_spec(status, priority, tags, deps) of the tests of stats.rs
create_test_spec(status, priority, tags, deps) ==
    [id          |-> S_test,
     spec_number |-> Some(1),
     spec_name   |-> S_test_spec,
     title       |-> Some(S_Test),
     status      |-> status,
     priority    |-> priority,
     tags        |-> tags,
     assignee    |-> None,
     content_md  |-> <<>>,
     updated_at  |-> None,
     file_path   |-> S_test_path,
     depends_on  |-> deps,
     required_by |-> <<>>]

\* The specs of test_calculate_stats, and a draft and an archived one
CountedSpecs ==
    { create_test_spec(S_planned, Some(S_high), <<S_architecture>>, <<>>),
      create_test_spec(S_in_progress, Some(S_high), <<S_ui, S_ux>>, <<R_001>>),
      create_test_spec(S_complete, Some(S_medium), <<S_docs>>, <<>>),
      create_test_spec(S_draft, None, <<>>, <<>>),
      create_test_spec(S_archived, Some(S_low), <<S_ui>>, <<R_001>>) }

\* The most specs of a slice
MaxCounted == 3

\* The slices of at most MaxCounted specs, the empty one among them
CountedSlices == UNION {[1..n -> CountedSpecs] : n \in 0..MaxCounted}

InitStats ==
    /\ specs \in CountedSlices
    /\ stats = NoStats
    /\ results = <<>>
    /\ cmd = "idle"
    /\ fs = NoDisk
    /\ graph = EmptyGraph
    /\ found = NoLookup
    /\ env = None
    /\ children = <<>>
    /\ threads = <<>>
    /\ manager = UiServerManager_new
    /\ payload = NoCommand
    /\ config = DesktopConfig_default
    /\ called = NoCall
    /\ store = ProjectsFile_default
    /\ earlier = <<>>
    /\ estimates = <<>>
    /\ dependencies = NoDependencies
    /\ before = NoDisk
    /\ outcome = NoOutcome
    /\ request = NoRequest
    /\ doc = <<>>
    /\ parsed = NotParsed

\* calculate_stats(&specs)
CalculateStats ==
    /\ cmd = "idle"
    /\ \E status_order \in IterationOrders(counts([i \in DOMAIN specs |-> specs[i].status])) :
       \E priority_order \in IterationOrders(counts(
              [i \in DOMAIN SelectSeq(specs, LAMBDA spec : spec.priority.some) |->
                  SelectSeq(specs, LAMBDA spec : spec.priority.some)[i].priority.v])) :
           stats' = Some(calculate_stats(specs, status_order, priority_order))
    /\ cmd' = "calculate_stats"
    /\ UNCHANGED <<fs, specs, graph, found, doc, parsed, results, request, outcome, before, dependencies, estimates, earlier, store, called, config, payload, manager, threads, children, env>>

NextStats == CalculateStats

SpecStats == InitStats /\ [][NextStats]_vars

(***************************************************************************)
(* estimate_tokens and the token issues of validate_spec on texts          *)
(***************************************************************************)
\* A spec document without padding
TokenBase == Readme(Front(S_draft, <<>>), B_overview)

\* n words of one full stop each
Pairs(n) == [i \in 1..(2 * n) |-> IF i % 2 = 1 THEN "." ELSE " "]

\* n full stops
Dots(n) == [i \in 1..n |-> "."]

\* The document with n more full stops in the first of k more words
Padded(k, n) == TokenBase \o Dots(n) \o Pairs(k)

\* How far the number of added words goes to either side of a threshold,
\* and the most full stops added
MaxPadDelta == 2
MaxDots == 3

\* The tenths of a token a word of one full stop adds: 1.3 + 0.5
PairTenths == 13 + 5

\* The documents whose estimates lie around a threshold
NearThreshold(threshold) ==
    With((10 * threshold - (13 * word_count(TokenBase) + 5 * special_chars(TokenBase)))
             \div PairTenths,
         LAMBDA k : {Padded(k + d, n) : d \in (0 - MaxPadDelta)..MaxPadDelta, n \in 0..MaxDots})

T_hello == <<"H", "e", "l", "l", "o", " ", "w", "o", "r", "l", "d">>
T_word == <<"a">>
T_space == <<" ">>
T_stop == <<".">>
T_line == <<"\n", "-", " ", "x", "\n">>

\* The texts appended
MoreTexts == {<<>>, T_hello, T_word, T_space, T_stop, T_line}

\* The texts estimated
TokenTexts ==
    MoreTexts \cup {TokenBase} \cup NearThreshold(ModerateTokens) \cup NearThreshold(HighTokens)

InitTokens ==
    /\ doc \in TokenTexts
    /\ estimates = <<>>
    /\ specs = <<>>
    /\ stats = NoStats
    /\ results = <<>>
    /\ cmd = "idle"
    /\ fs = NoDisk
    /\ graph = EmptyGraph
    /\ found = NoLookup
    /\ env = None
    /\ children = <<>>
    /\ threads = <<>>
    /\ manager = UiServerManager_new
    /\ payload = NoCommand
    /\ config = DesktopConfig_default
    /\ called = NoCall
    /\ store = ProjectsFile_default
    /\ earlier = <<>>
    /\ dependencies = NoDependencies
    /\ before = NoDisk
    /\ outcome = NoOutcome
    /\ request = NoRequest
    /\ parsed = NotParsed

\* validate_spec(&spec) on the spec of the document
ValidateTokens ==
    /\ cmd = "idle"
    /\ \E spec \in {spec_with_content(N_base, doc)} :
        /\ specs' = <<spec>>
        /\ results' = <<validate_spec(spec)>>
    /\ cmd' = "validate_spec"
    /\ UNCHANGED <<fs, graph, found, doc, parsed, request, outcome, before, dependencies, stats, estimates, earlier, store, called, config, payload, manager, threads, children, env>>

\* estimate_tokens(text) and estimate_tokens(text + more_text)
EstimateTokens ==
    /\ cmd = "idle"
    /\ \E more \in MoreTexts :
        /\ doc' = doc \o more
        /\ estimates' = <<estimate_tokens(doc), estimate_tokens(doc \o more)>>
    /\ cmd' = "estimate_tokens"
    /\ UNCHANGED <<fs, specs, graph, found, parsed, results, request, outcome, before, dependencies, stats, earlier, store, called, config, payload, manager, threads, children, env>>

NextTokens == ValidateTokens \/ EstimateTokens

SpecTokens == InitTokens /\ [][NextTokens]_vars

(***************************************************************************)
(* The validation commands on the specs the loader admits                  *)
(***************************************************************************)
\* The most entries of the specs root of a validated project
MaxAdmittedDirs == 2

AdmittedDisks ==
    {[exists |-> TRUE, root |-> r, archived |-> a] :
        r \in Listings(RootEntries, MaxAdmittedDirs), a \in ArchivedListings}

InitAdmitted ==
    /\ fs \in AdmittedDisks
    /\ cmd = "idle"
    /\ specs = <<>>
    /\ graph = EmptyGraph
    /\ found = NoLookup
    /\ env = None
    /\ children = <<>>
    /\ threads = <<>>
    /\ manager = UiServerManager_new
    /\ payload = NoCommand
    /\ config = DesktopConfig_default
    /\ called = NoCall
    /\ store = ProjectsFile_default
    /\ earlier = <<>>
    /\ estimates = <<>>
    /\ stats = NoStats
    /\ dependencies = NoDependencies
    /\ before = NoDisk
    /\ outcome = NoOutcome
    /\ request = NoRequest
    /\ results = <<>>
    /\ doc = <<>>
    /\ parsed = NotParsed

\* validate_spec_cmd: load_spec, then validate_spec on the spec found
ValidateSpecCmd ==
    /\ cmd = "idle"
    /\ \E project_id \in ProjectIds : project_found(project_id)
    /\ specs' \in load_all(fs)
    /\ \E spec_id \in Identifiers :
        \E spec \in {load_spec(specs', spec_id)} :
            /\ found' = [spec_id |-> spec_id, spec |-> spec]
            /\ results' = IF spec.some THEN <<validate_spec(spec.v)>> ELSE <<>>
    /\ cmd' = "validate_spec_cmd"
    /\ UNCHANGED <<fs, graph, doc, parsed, request, outcome, before, dependencies, stats, estimates, earlier, store, called, config, payload, manager, threads, children, env>>

\* validate_all_specs_cmd: load_all, then validate_all_specs
ValidateAllSpecsCmd ==
    /\ cmd = "idle"
    /\ \E project_id \in ProjectIds : project_found(project_id)
    /\ specs' \in load_all(fs)
    /\ results' = validate_all_specs(specs')
    /\ cmd' = "validate_all_specs_cmd"
    /\ UNCHANGED <<fs, graph, found, doc, parsed, request, outcome, before, dependencies, stats, estimates, earlier, store, called, config, payload, manager, threads, children, env>>

NextAdmitted == ValidateSpecCmd \/ ValidateAllSpecsCmd \/ Return

SpecAdmitted == InitAdmitted /\ [][NextAdmitted]_vars

(***************************************************************************)
(* The ProjectStore                                                        *)
(***************************************************************************)
\* The folders a project path may name: what fs::metadata, dunce::canonicalize
\* and detect_specs_dir find there
Folders ==
    { [path |-> "/work/alpha", is_dir |-> TRUE, canonical |-> "/work/alpha",
       file_name |-> "alpha", specs |-> TRUE, nested |-> FALSE],
      [path |-> "/work/alpha/.", is_dir |-> TRUE, canonical |-> "/work/alpha",
       file_name |-> "alpha", specs |-> TRUE, nested |-> FALSE],
      [path |-> "/work/beta", is_dir |-> TRUE, canonical |-> "/work/beta",
       file_name |-> "beta", specs |-> FALSE, nested |-> TRUE],
      [path |-> "/work/gamma", is_dir |-> TRUE, canonical |-> "/work/gamma",
       file_name |-> "gamma", specs |-> TRUE, nested |-> TRUE],
      [path |-> "/work/empty", is_dir |-> TRUE, canonical |-> "/work/empty",
       file_name |-> "empty", specs |-> FALSE, nested |-> FALSE],
      [path |-> "/work/notes.txt", is_dir |-> FALSE, canonical |-> "/work/notes.txt",
       file_name |-> "notes.txt", specs |-> FALSE, nested |-> FALSE] }

\* hash_path: the first 12 hex digits of the SHA-256 of the path
hash_path(path) ==
    CASE path = "/work/alpha" -> "017094432d2c"
      [] path = "/work/beta" -> "b4e242277325"
      [] path = "/work/gamma" -> "11cf259e9041"
      [] OTHER -> "000000000000"

\* detect_specs_dir
detect_specs_dir(folder) ==
    IF folder.specs THEN Ok("specs")
    ELSE IF folder.nested THEN Ok(".lean-spec/specs")
    ELSE Err("No specs directory found")

\* validate_project
validate_project(folder, now) ==
    IF ~folder.is_dir THEN Err("is not a directory")
    ELSE IF ~detect_specs_dir(folder).ok THEN detect_specs_dir(folder)
    ELSE Ok([id |-> hash_path(folder.canonical),
             name |-> folder.file_name,
             path |-> folder.canonical,
             specs_dir |-> detect_specs_dir(folder).v,
             last_accessed |-> to_rfc3339(now),
             favorite |-> FALSE])

\* The identifiers a caller may pass: those of the folders and one of none
StoreIds == {"017094432d2c", "b4e242277325", "11cf259e9041", "ffffffffffff"}

NewNames == {"renamed"}

\* What Utc::now() reads while the store is called
StoreTimes == {T_2}

\* projects.iter().position(|project| project.id == project_id)
position(projects, project_id) ==
    IF \E i \in DOMAIN projects : projects[i].id = project_id
    THEN Some(CHOOSE i \in DOMAIN projects :
                /\ projects[i].id = project_id
                /\ \A j \in 1..(i - 1) : projects[j].id # project_id)
    ELSE None

\* ProjectStore::find
find_project(file, project_id) ==
    With(position(file.projects, project_id), LAMBDA at :
        IF at.some THEN Some(file.projects[at.v]) ELSE None)

\* Vec::retain(|id| id != project_id)
retain_other_ids(ids, project_id) == SelectSeq(ids, LAMBDA id : id # project_id)

\* Vec::retain(|p| p.id != project_id)
retain_other_projects(projects, project_id) ==
    SelectSeq(projects, LAMBDA p : p.id # project_id)

\* insert(0, ..) without the retain before it
to_front_unretained(ids, project_id) == <<project_id>> \o ids

\* recent_projects.retain(..); recent_projects.insert(0, ..)
to_front(ids, project_id) == <<project_id>> \o retain_other_ids(ids, project_id)

\* ProjectStore::set_active: the file afterwards and the Option returned
set_active(file, project_id, now) ==
    With(position(file.projects, project_id), LAMBDA at :
        IF ~at.some THEN [file |-> file, result |-> None]
        ELSE With([file.projects[at.v] EXCEPT !.last_accessed = to_rfc3339(now)], LAMBDA snapshot :
                [file |-> [projects |-> [file.projects EXCEPT ![at.v] = snapshot],
                           recent_projects |-> to_front(file.recent_projects, project_id)],
                 result |-> Some(snapshot)]))

\* ProjectStore::add_project
add_project(file, folder, now) ==
    With(validate_project(folder, now), LAMBDA candidate :
        IF ~candidate.ok THEN [file |-> file, result |-> candidate]
        ELSE With(position(file.projects, candidate.v.id), LAMBDA at :
            IF at.some
            THEN With([file.projects[at.v] EXCEPT !.last_accessed = to_rfc3339(now)], LAMBDA snapshot :
                    [file |-> [file EXCEPT !.projects[at.v] = snapshot],
                     result |-> Ok(snapshot)])
            ELSE [file |-> [projects |-> Append(file.projects, candidate.v),
                            recent_projects |-> to_front(file.recent_projects, candidate.v.id)],
                  result |-> candidate]))

\* ProjectStore::toggle_favorite
toggle_favorite(file, project_id) ==
    With(position(file.projects, project_id), LAMBDA at :
        IF at.some
        THEN [file |-> [file EXCEPT !.projects[at.v].favorite = ~file.projects[at.v].favorite],
              result |-> Ok("()")]
        ELSE [file |-> file, result |-> Err("Project not found")])

\* ProjectStore::remove_project
remove_project(file, project_id) ==
    With([projects |-> retain_other_projects(file.projects, project_id),
          recent_projects |-> retain_other_ids(file.recent_projects, project_id)], LAMBDA retained :
        [file |-> retained,
         result |-> IF Len(retained.projects) = Len(file.projects)
                    THEN Err("Project not found") ELSE Ok("()")])

\* ProjectStore::rename_project
rename_project(file, project_id, new_name) ==
    With(position(file.projects, project_id), LAMBDA at :
        IF at.some
        THEN [file |-> [file EXCEPT !.projects[at.v].name = new_name], result |-> Ok("()")]
        ELSE [file |-> file, result |-> Err("Project not found")])

\* What a call leaves: the file, and the record of the call
Leaves(op, argument, done) ==
    /\ store' = done.file
    /\ called' = [op |-> op, argument |-> argument, result |-> done.result, before |-> store]
    /\ UNCHANGED <<fs, cmd, specs, graph, found, doc, parsed, results, request, outcome, before, dependencies, stats, estimates, earlier, config, payload, manager, threads, children, env>>

InitProjects ==
    /\ fs \in {[exists |-> FALSE, root |-> <<>>, archived |-> None]}
    /\ cmd = "idle"
    /\ specs = <<>>
    /\ graph = EmptyGraph
    /\ found = NoLookup
    /\ store = ProjectsFile_default
    /\ called = NoCall
    /\ config = DesktopConfig_default
    /\ payload = NoCommand
    /\ manager = UiServerManager_new
    /\ threads = <<>>
    /\ children = <<>>
    /\ env = None
    /\ earlier = <<>>
    /\ estimates = <<>>
    /\ stats = NoStats
    /\ dependencies = NoDependencies
    /\ before = NoDisk
    /\ outcome = NoOutcome
    /\ request = NoRequest
    /\ results = <<>>
    /\ doc = <<>>
    /\ parsed = NotParsed

SetActive ==
    \E project_id \in StoreIds, now \in StoreTimes :
        Leaves("set_active", project_id, set_active(store, project_id, now))

AddProject ==
    \E folder \in Folders, now \in StoreTimes :
        Leaves("add_project", folder.path, add_project(store, folder, now))

ToggleFavorite ==
    \E project_id \in StoreIds :
        Leaves("toggle_favorite", project_id, toggle_favorite(store, project_id))

RemoveProject ==
    \E project_id \in StoreIds :
        Leaves("remove_project", project_id, remove_project(store, project_id))

RenameProject ==
    \E project_id \in StoreIds, new_name \in NewNames :
        Leaves("rename_project", project_id, rename_project(store, project_id, new_name))

NextProjects == SetActive \/ AddProject \/ ToggleFavorite \/ RemoveProject \/ RenameProject

SpecProjects == InitProjects /\ [][NextProjects]_vars

(***************************************************************************)
(* The desktop commands on projects                                        *)
(***************************************************************************)
\* mutate_config(|config| config.active_project_id = ..)
mutate_config(cfg, active_project_id) == [cfg EXCEPT !.active_project_id = active_project_id]

\* build_payload taking the configured id as it is, registered or not
build_payload_unchecked(file, cfg) ==
    [active_project_id |-> cfg.active_project_id,
     config |-> cfg,
     projects |-> file.projects]

\* build_payload
build_payload(file, cfg) ==
    With(IF cfg.active_project_id.some
         THEN find_project(file, cfg.active_project_id.v)
         ELSE None, LAMBDA active_project :
        [active_project_id |-> IF active_project.some THEN Some(active_project.v.id) ELSE None,
         config |-> cfg,
         projects |-> file.projects])

\* build_and_publish: the payload built, returned unless rebuilding the tray
\* or emitting desktop://state-updated fails
build_and_publish(file, cfg, published) ==
    With(build_payload(file, cfg), LAMBDA built :
        [built |-> Some(built),
         result |-> IF published THEN Ok(built) ELSE Err("publish")])

\* A command that returned before it built a payload
Rejected(error) == [built |-> None, result |-> Err(error)]

\* The stores projects.json may hold when the shell starts
StoresAtStart ==
    { ProjectsFile_default,
      add_project(ProjectsFile_default,
                  CHOOSE f \in Folders : f.path = "/work/alpha", T_2).file,
      add_project(add_project(ProjectsFile_default,
                              CHOOSE f \in Folders : f.path = "/work/alpha", T_2).file,
                  CHOOSE f \in Folders : f.path = "/work/beta", T_2).file }

\* The configurations desktop.yaml may hold
ConfigsAtStart ==
    {DesktopConfig_default} \cup {[active_project_id |-> Some(id)] : id \in StoreIds}

\* What the folder dialog returns: nothing, or a folder
Picks == {None} \cup {Some(folder) : folder \in Folders}

InitDesktop ==
    /\ fs \in {[exists |-> FALSE, root |-> <<>>, archived |-> None]}
    /\ cmd = "idle"
    /\ specs = <<>>
    /\ graph = EmptyGraph
    /\ found = NoLookup
    /\ store \in StoresAtStart
    /\ called = NoCall
    /\ config \in ConfigsAtStart
    /\ payload = NoCommand
    /\ manager = UiServerManager_new
    /\ threads = <<>>
    /\ children = <<>>
    /\ env = None
    /\ earlier = <<>>
    /\ estimates = <<>>
    /\ stats = NoStats
    /\ dependencies = NoDependencies
    /\ before = NoDisk
    /\ outcome = NoOutcome
    /\ request = NoRequest
    /\ results = <<>>
    /\ doc = <<>>
    /\ parsed = NotParsed

\* What a command leaves: the store, the configuration and the record of it
Replies(command, argument, file, cfg, reply) ==
    /\ store' = file
    /\ config' = cfg
    /\ payload' = [command |-> command, argument |-> argument,
                   built |-> reply.built, result |-> reply.result,
                   before |-> [store |-> store, config |-> config]]
    /\ UNCHANGED <<fs, cmd, specs, graph, found, doc, parsed, results, request, outcome, before, dependencies, stats, estimates, earlier, called, manager, threads, children, env>>

\* desktop_bootstrap
DesktopBootstrap ==
    \E published \in BOOLEAN :
        Replies("desktop_bootstrap", "", store, config,
                build_and_publish(store, config, published))

\* desktop_switch_project
DesktopSwitchProject ==
    \E project_id \in StoreIds, now \in StoreTimes, published \in BOOLEAN :
        IF ~find_project(store, project_id).some
        THEN Replies("desktop_switch_project", project_id, store, config,
                     Rejected("Unknown project"))
        ELSE \E file \in {set_active(store, project_id, now).file},
                cfg \in {mutate_config(config, Some(project_id))} :
                Replies("desktop_switch_project", project_id, file, cfg,
                        build_and_publish(file, cfg, published))

\* desktop_add_project
DesktopAddProject ==
    \E pick \in Picks, now \in StoreTimes, published \in BOOLEAN :
        IF ~pick.some
        THEN Replies("desktop_add_project", "", store, config,
                     build_and_publish(store, config, published))
        ELSE \E added \in {add_project(store, pick.v, now)} :
            IF ~added.result.ok
            THEN Replies("desktop_add_project", pick.v.path, added.file, config,
                         Rejected(added.result.err))
            ELSE \E file \in {set_active(added.file, added.result.v.id, now).file},
                    cfg \in {mutate_config(config, Some(added.result.v.id))} :
                    Replies("desktop_add_project", pick.v.path, file, cfg,
                            build_and_publish(file, cfg, published))

\* desktop_remove_project
DesktopRemoveProject ==
    \E project_id \in StoreIds, published \in BOOLEAN :
        \E removed \in {remove_project(store, project_id)} :
            IF ~removed.result.ok
            THEN Replies("desktop_remove_project", project_id, removed.file, config,
                         Rejected(removed.result.err))
            ELSE \E cfg \in {IF config.active_project_id = Some(project_id)
                             THEN mutate_config(config, None)
                             ELSE config} :
                    Replies("desktop_remove_project", project_id, removed.file, cfg,
                            build_and_publish(removed.file, cfg, published))

NextDesktop ==
    \/ DesktopBootstrap
    \/ DesktopSwitchProject
    \/ DesktopAddProject
    \/ DesktopRemoveProject

SpecDesktop == InitDesktop /\ [][NextDesktop]_vars

(***************************************************************************)
(* The UiServerManager under concurrent callers                            *)
(***************************************************************************)
\* The most threads calling the manager at once
MaxThreads == 2

\* The most server processes spawned in one run
MaxSpawned == 3

Threads == 1..MaxThreads

\* format!("http://127.0.0.1:{port}"), the port being the one picked for
\* the child
url_of_port(port) == [origin |-> "port", port |-> port]

\* The URL LEAN_SPEC_UI_URL may hold
OverrideUrl == [origin |-> "env"]

\* A thread outside the manager
Outside == [pc |-> "outside", child |-> None]

InitServer ==
    /\ fs \in {[exists |-> FALSE, root |-> <<>>, archived |-> None]}
    /\ cmd = "idle"
    /\ specs = <<>>
    /\ graph = EmptyGraph
    /\ found = NoLookup
    /\ store = ProjectsFile_default
    /\ called = NoCall
    /\ config = DesktopConfig_default
    /\ payload = NoCommand
    /\ manager = UiServerManager_new
    /\ threads = [t \in Threads |-> Outside]
    /\ children = <<>>
    /\ env \in {None, Some(OverrideUrl)}
    /\ earlier = <<>>
    /\ estimates = <<>>
    /\ stats = NoStats
    /\ dependencies = NoDependencies
    /\ before = NoDisk
    /\ outcome = NoOutcome
    /\ request = NoRequest
    /\ results = <<>>
    /\ doc = <<>>
    /\ parsed = NotParsed

\* The thread moves to a position, holding a child or none
Moves(t, pc, child) == threads' = [threads EXCEPT ![t] = [pc |-> pc, child |-> child]]

Elsewhere == UNCHANGED <<fs, cmd, specs, graph, found, doc, parsed, results, request, outcome, before, dependencies, stats, estimates, earlier, store, called, config, payload, env>>

\* A thread calls ensure_running
CallEnsureRunning(t) ==
    /\ threads[t].pc = "outside"
    /\ Moves(t, "read_env", None)
    /\ UNCHANGED <<manager, children>>
    /\ Elsewhere

\* A thread calls stop
CallStop(t) ==
    /\ threads[t].pc = "outside"
    /\ Moves(t, "take_child", None)
    /\ UNCHANGED <<manager, children>>
    /\ Elsewhere

\* ensure_running: the override in LEAN_SPEC_UI_URL is cached and returned
ReadEnv(t) ==
    /\ threads[t].pc = "read_env"
    /\ IF env.some
       THEN /\ manager' = [manager EXCEPT !.url = Some(env.v)]
            /\ Moves(t, "outside", None)
       ELSE /\ Moves(t, "read_url", None)
            /\ UNCHANGED manager
    /\ UNCHANGED children
    /\ Elsewhere

\* ensure_running: a cached URL is returned
ReadUrl(t) ==
    /\ threads[t].pc = "read_url"
    /\ IF manager.url.some
       THEN Moves(t, "outside", None)
       ELSE Moves(t, "spawn", None)
    /\ UNCHANGED <<manager, children>>
    /\ Elsewhere

\* ensure_running: spawn_dev_server or spawn_embedded_server starts a
\* process, or fails and the call returns the error
SpawnServer(t) ==
    /\ threads[t].pc = "spawn"
    /\ \/ /\ Len(children) < MaxSpawned
          /\ children' = Append(children, "running")
          /\ Moves(t, "wait_for_server", Some(Len(children) + 1))
       \/ /\ Moves(t, "outside", None)
          /\ UNCHANGED children
    /\ UNCHANGED manager
    /\ Elsewhere

\* ensure_running: wait_for_server connects, or gives up after 80 attempts
\* and the call returns the error, the Child being dropped
WaitForServer(t) ==
    /\ threads[t].pc = "wait_for_server"
    /\ \/ Moves(t, "store_child", threads[t].child)
       \/ Moves(t, "outside", None)
    /\ UNCHANGED <<manager, children>>
    /\ Elsewhere

\* ensure_running: *self.child.lock() = Some(child), the Child stored before
\* being dropped
StoreChild(t) ==
    /\ threads[t].pc = "store_child"
    /\ manager' = [manager EXCEPT !.child = threads[t].child]
    /\ Moves(t, "store_url", threads[t].child)
    /\ UNCHANGED children
    /\ Elsewhere

\* ensure_running: *self.url.lock() = Some(url)
StoreUrl(t) ==
    /\ threads[t].pc = "store_url"
    /\ manager' = [manager EXCEPT !.url = Some(url_of_port(threads[t].child.v))]
    /\ Moves(t, "outside", None)
    /\ UNCHANGED children
    /\ Elsewhere

\* stop: the child is taken out of the manager and killed
TakeChild(t) ==
    /\ threads[t].pc = "take_child"
    /\ manager' = [manager EXCEPT !.child = None]
    /\ children' = IF manager.child.some
                   THEN [children EXCEPT ![manager.child.v] = "killed"]
                   ELSE children
    /\ Moves(t, "clear_url", None)
    /\ Elsewhere

\* stop: *self.url.lock() = None
ClearUrl(t) ==
    /\ threads[t].pc = "clear_url"
    /\ manager' = [manager EXCEPT !.url = None]
    /\ Moves(t, "outside", None)
    /\ UNCHANGED children
    /\ Elsewhere

NextServer ==
    \E t \in Threads :
        \/ CallEnsureRunning(t)
        \/ CallStop(t)
        \/ ReadEnv(t)
        \/ ReadUrl(t)
        \/ SpawnServer(t)
        \/ WaitForServer(t)
        \/ StoreChild(t)
        \/ StoreUrl(t)
        \/ TakeChild(t)
        \/ ClearUrl(t)

SpecServer == InitServer /\ [][NextServer]_vars

(***************************************************************************)
(* Claims on the loader, the lookup and the graph, checked under Spec      *)
(***************************************************************************)
\* A command has loaded the specs and its result is at hand
Loaded == cmd \in {"get_specs", "get_dependency_graph", "get_spec_detail"}

\* What the graph resolver makes of a reference among the loaded specs
Resolved(dep) ==
    LET numbered == numbered_specs(specs)
    IN  resolve_dependency(dep, spec_id_by_name(numbered, EmptyMap),
                           spec_id_by_number(numbered, EmptyMap))

Range(s) == {s[i] : i \in 1..Len(s)}

Numbered == {i \in 1..Len(specs) : specs[i].spec_number.some}

\* The declared references of the loaded specs: <<i, k>> is entry k of the
\* depends_on of spec i
References ==
    UNION {{<<i, k>> : k \in 1..Len(specs[i].depends_on)} : i \in 1..Len(specs)}

\* C1: required_by is the exact inverse of depends_on under the graph
\* resolver: for loaded specs A and B (stated here for distinct ones only),
\* B's slug is in A.required_by if and only if some entry of B.depends_on
\* resolves to A
C1_RequiredByIsInverse ==
    Loaded =>
        \A a, b \in 1..Len(specs) :
            a # b =>
                (specs[b].spec_name \in Range(specs[a].required_by)
                 <=> \E k \in 1..Len(specs[b].depends_on) :
                        Resolved(specs[b].depends_on[k]) = Some(specs[a].id))

R_002 == <<"0", "0", "2">>
R_2 == <<"2">>
R_003 == <<"0", "0", "3">>
R_3 == <<"3">>
R_004 == <<"0", "0", "4">>
R_4 == <<"4">>

\* The sequence numbers of the directories above, each with its zero-padded
\* and its bare form
NumberForms ==
    {<<1, R_001, R_1>>, <<2, R_002, R_2>>, <<3, R_003, R_3>>, <<4, R_004, R_4>>}

\* The three forms that name spec S, and references that carry another number
OwnForms(S) ==
    {S.spec_name} \cup UNION {{f[2], f[3]} : f \in {g \in NumberForms : g[1] = S.spec_number.v}}

OtherForms(S) ==
    UNION {{f[2], f[3], f[2] \o <<"-", "z">>} :
              f \in {g \in NumberForms : g[1] # S.spec_number.v}}

\* The graph resolver's two indexes of the loaded specs
Indexes ==
    LET numbered == numbered_specs(specs)
    IN  [by_name   |-> spec_id_by_name(numbered, EmptyMap),
         by_number |-> spec_id_by_number(numbered, EmptyMap)]

FormsInterchangeable(S, index) ==
    /\ \A r \in OwnForms(S) :
          /\ resolve_dependency(r, index.by_name, index.by_number) = Some(S.id)
          /\ dependency_matches(r, S.spec_name, S.spec_number)
    /\ \A r \in OtherForms(S) : ~dependency_matches(r, S.spec_name, S.spec_number)

NumberIsItsOwn(i) ==
    \A j \in Numbered :
        specs[j].spec_number = specs[i].spec_number => specs[j].spec_name = specs[i].spec_name

NodeIds == {graph.nodes[i].id : i \in 1..Len(graph.nodes)}

\* C3: no edge of the graph has its source equal to its target, and both
\* ends of every edge are ids of nodes of the graph
C3_EdgesSound ==
    cmd = "get_dependency_graph" =>
        \A j \in 1..Len(graph.edges) :
            /\ graph.edges[j].source # graph.edges[j].target
            /\ graph.edges[j].source \in NodeIds
            /\ graph.edges[j].target \in NodeIds

\* A graph with an edge, built from specs of which one refers to itself, one
\* to a spec without a number and one to a number no spec has
C3_Witness ==
    /\ cmd = "get_dependency_graph"
    /\ graph.edges # <<>>
    /\ \E r \in References : r[1] \in Numbered /\ Resolved(specs[r[1]].depends_on[r[2]]) = Some(specs[r[1]].id)
    /\ \E r \in References : r[1] \in Numbered /\ specs[r[1]].depends_on[r[2]] = N_1x
    /\ \E r \in References : r[1] \in Numbered /\ specs[r[1]].depends_on[r[2]] = R_999

\* The ids of the loaded specs that have a sequence number, in loaded order
NumberedIds ==
    LET numbered == SelectSeq(specs, LAMBDA x : x.spec_number.some)
    IN  [j \in 1..Len(numbered) |-> numbered[j].id]

\* The references of numbered specs that resolve to src, another id than
\* that of the referring spec tgt
ReferencesFrom(tgt, src) ==
    {r \in References :
        /\ r[1] \in Numbered
        /\ specs[r[1]].id = tgt
        /\ src # tgt
        /\ Resolved(specs[r[1]].depends_on[r[2]]) = Some(src)}

EdgesFromTo(src, tgt) ==
    {j \in 1..Len(graph.edges) :
        graph.edges[j].source = src /\ graph.edges[j].target = tgt}

\* The specs are A (#1), B (#2, depends on "001-base") and C (#3, depends on
\* "002-feature" and "001")
SpecsAreABC ==
    /\ Len(specs) = 3
    /\ specs[1].spec_name = N_base /\ specs[1].depends_on = <<>>
    /\ specs[2].spec_name = N_feature /\ specs[2].depends_on = <<N_base>>
    /\ specs[3].spec_name = N_extension /\ specs[3].depends_on = <<N_feature, R_001>>

\* The graph has 3 nodes and exactly the 3 edges A->B, B->C, A->C
GraphIsABC ==
    /\ Len(graph.nodes) = 3
    /\ Len(graph.edges) = 3
    /\ {<<graph.edges[j].source, graph.edges[j].target>> : j \in 1..Len(graph.edges)}
         = {<<specs[1].id, specs[2].id>>, <<specs[2].id, specs[3].id>>,
            <<specs[1].id, specs[3].id>>}

\* C4: the graph has one node for each loaded spec with a sequence number
\* and none for the others, and one edge from T.id to S.id for each numbered
\* spec S and each entry of S.depends_on that resolves to a spec T other
\* than S, and no other edge; for the specs A, B, C it has 3 nodes and the
\* edges A->B, B->C, A->C
C4_GraphExact ==
    cmd = "get_dependency_graph" =>
        /\ [j \in 1..Len(graph.nodes) |-> graph.nodes[j].id] = NumberedIds
        /\ \A j \in 1..Len(graph.edges) :
              graph.edges[j].source \in Range(NumberedIds)
              /\ graph.edges[j].target \in Range(NumberedIds)
        /\ \A src, tgt \in Range(NumberedIds) :
              Cardinality(EdgesFromTo(src, tgt)) = Cardinality(ReferencesFrom(tgt, src))
        /\ SpecsAreABC => GraphIsABC

\* The graph of A, B and C
C4_Witness == cmd = "get_dependency_graph" /\ SpecsAreABC /\ GraphIsABC

\* The entries of the directory, each with whether it lies in archived/
Entries ==
    {<<fs.root[i], FALSE>> : i \in 1..Len(fs.root)}
    \cup (IF fs.archived.some
          THEN {<<fs.archived.v[i], TRUE>> : i \in 1..Len(fs.archived.v)}
          ELSE {})

\* An entry is a directory whose name starts with a decimal digit, whose
\* README.md is readable and whose frontmatter decodes with a status
Qualifies(e) ==
    /\ e.is_dir
    /\ e.name # <<>> /\ e.name[1] \in DigitChars
    /\ e.readme.some
    /\ parse_readme(e.readme.v).fm.status.some

PathOf(e, in_archived) ==
    (IF in_archived THEN S_specs_archived ELSE S_specs) \o e.name \o S_readme

\* The loaded specs that stand for entry e
LoadedFrom(e, in_archived) ==
    {i \in 1..Len(specs) :
        /\ specs[i].spec_name = e.name
        /\ specs[i].file_path = PathOf(e, in_archived)
        /\ Some(specs[i].content_md) = e.readme}

\* C5: a spec loaded from archived/ has status "archived" and a file path
\* under specs/archived/, whatever its frontmatter declares; a spec loaded
\* from the root has the status its frontmatter declares
C5_ArchivedOverride ==
    Loaded =>
        /\ \A en \in Entries :
              Qualifies(en[1]) =>
                  /\ LoadedFrom(en[1], en[2]) # {}
                  /\ \A i \in LoadedFrom(en[1], en[2]) :
                        /\ starts_with(specs[i].file_path, S_specs_archived) = en[2]
                        /\ specs[i].status =
                              IF en[2] THEN S_archived
                              ELSE parse_readme(en[1].readme.v).fm.status.v
        /\ \A i \in 1..Len(specs) :
              starts_with(specs[i].file_path, S_specs_archived) => specs[i].status = S_archived

\* 001-base is loaded from the root as planned and from archived/, where
\* its frontmatter says complete, as archived
C5_Witness ==
    /\ Loaded
    /\ \E i, j \in 1..Len(specs) :
          /\ specs[i].spec_name = N_base /\ specs[j].spec_name = N_base
          /\ specs[i].status = S_planned
          /\ specs[i].file_path = S_specs \o N_base \o S_readme
          /\ specs[j].status = S_archived
          /\ specs[j].file_path = S_specs_archived \o N_base \o S_readme
          /\ contains(specs[j].content_md, S_status_colon \o S_complete)

C7_SortedByNumber ==
    Loaded =>
        \A i, j \in 1..Len(specs) :
            i < j =>
                /\ specs[i].spec_number.some => specs[j].spec_number.some
                /\ (specs[i].spec_number.some /\ specs[j].spec_number.some)
                      => specs[i].spec_number.v <= specs[j].spec_number.v

\* Three directories read in the reverse of the sorted order, the one
\* without a number last
C7_Witness ==
    /\ Loaded
    /\ Len(specs) = 3 /\ Len(fs.root) = 3
    /\ \A i \in 1..3 : specs[i].spec_name = fs.root[4 - i].name
    /\ ~specs[1].spec_number.some
    /\ specs[2].spec_number.v < specs[3].spec_number.v

\* The ways spec s matches the identifier, in priority order
MatchKinds(s, identifier) ==
    <<s.spec_name = identifier,
      starts_with(s.spec_name, identifier \o <<"-">>),
      s.id = identifier,
      s.id = S_fs \o identifier>>

\* C8: load_spec with an identifier that is no integer returns a spec that
\* matches by the first kind, in the order exact slug, slug prefix, exact
\* id, "fs-" id, by which any loaded spec matches, wherever the specs are
\* in the sequence; it returns none when no spec matches
C8_LookupByPriority ==
    (cmd = "get_spec_detail" /\ ~parse_i32(found.spec_id).some) =>
        LET Matching(k) == {i \in 1..Len(specs) : MatchKinds(specs[i], found.spec_id)[k]}
            kinds == {k \in 1..4 : Matching(k) # {}}
        IN  IF kinds = {} THEN ~found.spec.some
            ELSE /\ found.spec.some
                 /\ MatchKinds(found.spec.v, found.spec_id)[MinOf(kinds)]


(***************************************************************************)
(* Claims on get_spec_dependencies, checked under Spec                     *)
(***************************************************************************)
\* get_spec_dependencies_cmd has found the spec and returned its dependencies
Materialized == cmd = "get_spec_dependencies" /\ found.spec.some /\ dependencies.some

\* The entry gives the slug, the title and the status of spec s
Describes(entry, s) ==
    /\ entry.spec_name = s.spec_name
    /\ entry.title = s.title
    /\ entry.status = s.status

\* The loaded specs a reference names as it is written: by slug, or by the
\* zero-padded or the bare number
NamedDirectly(dep) ==
    {i \in 1..Len(specs) :
        \/ trim(dep) = specs[i].spec_name
        \/ /\ specs[i].spec_number.some
           /\ trim(dep) \in {format_03(specs[i].spec_number.v), to_string(specs[i].spec_number.v)}}

\* The loaded specs that carry the number before the reference's first hyphen
NamedByNumber(dep) ==
    {i \in 1..Len(specs) :
        /\ specs[i].spec_number.some
        /\ parse_i32(split_first(trim(dep), "-")) = Some(specs[i].spec_number.v)}

\* The loaded specs a reference resolves to: the direct match first
Targets(dep) == IF NamedDirectly(dep) # {} THEN NamedDirectly(dep) ELSE NamedByNumber(dep)

\* The references of the found spec that resolve to a loaded spec, in order
Resolving == SelectSeq(found.spec.v.depends_on, LAMBDA dep : Targets(dep) # {})

\* C19: get_spec_dependencies returns in depends_on, in reference order, one
\* entry for each reference that resolves to a loaded spec and none for a
\* reference that does not, and in required_by one entry for every name of
\* the spec's required_by when all_specs is the set the spec was loaded with
C19_DependenciesMaterialize ==
    Materialized =>
        /\ Len(dependencies.v.depends_on) = Len(Resolving)
        /\ \A k \in 1..Len(Resolving) :
              \E i \in Targets(Resolving[k]) : Describes(dependencies.v.depends_on[k], specs[i])
        /\ Len(dependencies.v.required_by) = Len(found.spec.v.required_by)
        /\ \A k \in 1..Len(found.spec.v.required_by) :
              \E i \in 1..Len(specs) :
                  /\ specs[i].spec_name = found.spec.v.required_by[k]
                  /\ Describes(dependencies.v.required_by[k], specs[i])

\* 002-feature refers to 001-base, which only 001-base-x's number stands for,
\* and has a dependent
C19_Witness ==
    /\ Materialized
    /\ \E k \in 1..Len(found.spec.v.depends_on) :
          /\ NamedDirectly(found.spec.v.depends_on[k]) = {}
          /\ NamedByNumber(found.spec.v.depends_on[k]) # {}
    /\ found.spec.v.required_by # <<>>
    /\ Len(dependencies.v.depends_on) = Len(found.spec.v.depends_on)
    /\ Len(dependencies.v.required_by) = Len(found.spec.v.required_by)

(***************************************************************************)
(* Claims on the validator, checked under SpecValidate                     *)
(***************************************************************************)
Errors(result) ==
    {result.issues[j].code : j \in {k \in DOMAIN result.issues : result.issues[k].severity = "Error"}}

Codes(result) == {result.issues[j].code : j \in DOMAIN result.issues}

\* C12: in every ValidationResult of validate and of validate_all, valid is
\* true if and only if no issue of its issues has error severity
C12_ValidIffNoError ==
    \A i \in DOMAIN results : results[i].valid <=> Errors(results[i]) = {}

\* validate_all returned an invalid result that it added a warning to
C12_Witness ==
    /\ cmd = "validate_all_specs"
    /\ \E i \in DOMAIN results :
        /\ ~results[i].valid
        /\ "broken-dependency" \in Codes(results[i])
        /\ "missing-status" \in Errors(results[i])

AllowedStatuses ==
    { <<"d", "r", "a", "f", "t">>, <<"p", "l", "a", "n", "n", "e", "d">>,
      <<"i", "n", "-", "p", "r", "o", "g", "r", "e", "s", "s">>,
      <<"c", "o", "m", "p", "l", "e", "t", "e">>,
      <<"a", "r", "c", "h", "i", "v", "e", "d">> }

\* The status of the frontmatter re-parsed from the validated spec's text
ReparsedStatus == parse_frontmatter(found.spec.v.content_md).fm.status

\* C13: validate reports "missing-status" exactly when the re-parsed
\* frontmatter has no status and "invalid-status" exactly when it has one
\* outside draft, planned, in-progress, complete, archived; no other issue
\* is an error, so a spec with an allowed status is valid whatever warnings
\* it gets
C13_StatusErrorsOnly ==
    cmd = "validate_spec" =>
        /\ ("missing-status" \in Codes(results[1])) <=> ~ReparsedStatus.some
        /\ ("invalid-status" \in Codes(results[1]))
              <=> (ReparsedStatus.some /\ ReparsedStatus.v \notin AllowedStatuses)
        /\ Errors(results[1]) \subseteq {"missing-status", "invalid-status"}
        /\ (ReparsedStatus.some /\ ReparsedStatus.v \in AllowedStatuses) => results[1].valid

\* A spec of more than 400 lines with an allowed status: warned, and valid
C13_Witness ==
    /\ cmd = "validate_spec"
    /\ Len(lines(found.spec.v.content_md)) > 400
    /\ "excessive-length" \in Codes(results[1])
    /\ results[1].valid

\* C14: validate_all returns one result per input spec in input order, and
\* each result's valid flag is the one validate returns for that spec alone
C14_ValidAsValidate ==
    cmd = "validate_all_specs" =>
        /\ Len(results) = Len(specs)
        /\ \A i \in DOMAIN specs :
            /\ results[i].spec_name = specs[i].spec_name
            /\ results[i].valid = validate_spec(specs[i]).valid

\* The result of a spec has a "broken-dependency" warning for the reference
Warned(result, dep) ==
    \E j \in DOMAIN result.issues :
        /\ result.issues[j].code = "broken-dependency"
        /\ result.issues[j].severity = "Warning"
        /\ result.issues[j].message = <<dep>>

\* A valid spec that depends on 999, no spec being numbered 999: it gets the
\* warning and stays valid
C14_Witness ==
    /\ cmd = "validate_all_specs"
    /\ \A i \in DOMAIN specs : specs[i].spec_number # Some(999)
    /\ \E i \in DOMAIN specs :
        /\ R_999 \in Range(specs[i].depends_on)
        /\ Warned(results[i], R_999)
        /\ results[i].valid

\* C15: validate_all uses the resolution rule of the graph builder: for
\* every non-empty depends_on reference of a spec of the set, the
\* "broken-dependency" warning is added for it if and only if the graph
\* resolver over the same set fails to resolve it
C15_BrokenIffUnresolved ==
    cmd = "validate_all_specs" =>
        \A i \in DOMAIN specs : \A k \in DOMAIN specs[i].depends_on :
            LET dep == specs[i].depends_on[k]
            IN  trim(dep) # <<>> => (Warned(results[i], dep) <=> ~Resolved(dep).some)


(***************************************************************************)
(* Claims on update_spec_status, checked under SpecUpdate                  *)
(***************************************************************************)
Updated == cmd = "update_spec_status"

RegisteredProjects == {"p1"}

\* The spec the call is about: what the loader finds for spec_id in the
\* directory as the call met it
Requested == load_spec(CHOOSE ss \in load_all(before) : TRUE, request.spec_id)

\* The README.md of the directory `name` of a specs root
FileOf(disk, name) ==
    LET at == {i \in DOMAIN disk.root : disk.root[i].name = name /\ disk.root[i].is_dir}
    IN  IF at = {} THEN None ELSE disk.root[CHOOSE i \in at : TRUE].readme

\* The status stored in that file
StoredStatus(disk, name) ==
    IF FileOf(disk, name).some THEN parse_frontmatter(FileOf(disk, name).v).fm.status ELSE None

\* A frontmatter block: an opening delimiter line and a later closing one
WellFormed(text) == BeginsWithDelimiterLine(text) /\ HasClosingLine(text)

SkipsPlanned ==
    /\ Requested.some
    /\ Requested.v.status = S_draft
    /\ request.new_status \in {S_in_progress, S_complete}

\* C16: update_status returns an error and leaves the spec's file unchanged
\* when new_status is outside the allowed set, the project is unknown, the
\* spec is unknown, the request goes from draft to in-progress or complete
\* without force, or the document has no well-formed frontmatter block
C16_RejectsWithoutTrace ==
    (/\ Updated
     /\ \/ request.new_status \notin AllowedStatuses
        \/ request.project_id \notin RegisteredProjects
        \/ ~Requested.some
        \/ SkipsPlanned /\ request.force # Some(TRUE)
        \/ Requested.some /\ ~WellFormed(Requested.v.content_md))
        => (~outcome.ok /\ fs = before)

\* C17: a call that does not set force never takes the stored status of a
\* spec from draft to in-progress or to complete, and the same request
\* with force set succeeds
C17_NoSkipWithoutForce ==
    Updated =>
        /\ request.force # Some(TRUE) =>
              \A i \in DOMAIN before.root :
                  ~(/\ StoredStatus(before, before.root[i].name) = Some(S_draft)
                    /\ StoredStatus(fs, before.root[i].name)
                          \in {Some(S_in_progress), Some(S_complete)})
        /\ (/\ request.force = Some(TRUE)
            /\ request.project_id \in RegisteredProjects
            /\ SkipsPlanned)
              => (/\ outcome.ok
                  /\ outcome.spec.v.status = request.new_status
                  /\ StoredStatus(fs, Requested.v.spec_name) = Some(request.new_status))

\* A forced call took a stored draft to in-progress
C17_Witness ==
    /\ Updated
    /\ request.force = Some(TRUE)
    /\ outcome.ok
    /\ StoredStatus(before, Requested.v.spec_name) = Some(S_draft)
    /\ StoredStatus(fs, Requested.v.spec_name) = Some(S_in_progress)

IsStatusLine(l) == starts_with(l, S_status \o <<":">>)

IsUpdatedLine(l) == starts_with(l, S_updated_at \o <<":">>) \/ starts_with(l, S_updatedAt \o <<":">>)

\* The lines of the frontmatter block but the status and the timestamp ones
OtherLines(text) ==
    LET ls == lines(BlockBetweenLines(text))
    IN  SelectSeq(ls, LAMBDA l : ~IsStatusLine(l) /\ ~IsUpdatedLine(l))

\* The text after the closing delimiter
AfterClosing(text) == Drop(text, MinOf(ClosingLines(text)) + 3)

\* C18: a successful update_status changes only the status line and the
\* updated-timestamp line of the frontmatter: every other frontmatter line,
\* in its original order, and the whole body after the closing delimiter
\* are the same before and after the call
C18_OnlyStatusAndTimestamp ==
    (/\ Updated
     /\ outcome.ok
     /\ FileOf(before, Requested.v.spec_name).some
     /\ WellFormed(FileOf(before, Requested.v.spec_name).v))
        => LET old == FileOf(before, Requested.v.spec_name).v
               new == FileOf(fs, Requested.v.spec_name).v
           IN  /\ WellFormed(new)
               /\ OtherLines(new) = OtherLines(old)
               /\ AfterClosing(new) = AfterClosing(old)

\* The line "updated_at: '<now>'" that the update has written to the file
WrittenTimestamps ==
    {dt \in Timestamps :
        \E k \in DOMAIN lines(FileOf(fs, Requested.v.spec_name).v) :
            lines(FileOf(fs, Requested.v.spec_name).v)[k]
                = S_updated_at \o <<":", " ", "'">> \o to_rfc3339(dt) \o <<"'">>}

\* C25: the Spec a successful update_status returns has the status
\* new_status and an updated timestamp that is present and is the one the
\* update has written
C25_ReturnedSpecReflectsWrite ==
    (Updated /\ outcome.ok) =>
        /\ outcome.spec.v.status = request.new_status
        /\ outcome.spec.v.updated_at.some
        /\ outcome.spec.v.updated_at.v \in WrittenTimestamps

\* The document the directory `name` held before the first call
OriginalOf(name) == (CHOOSE e \in UpdatedEntries : e.name = name).readme.v

\* The lines of the frontmatter block that satisfy test
BlockLines(text, test(_)) == SelectSeq(lines(BlockBetweenLines(text)), test)

\* The directories whose document began with a frontmatter block of exactly
\* one status line and has been updated since
UpdatedDocuments ==
    {i \in DOMAIN fs.root :
        /\ WellFormed(OriginalOf(fs.root[i].name))
        /\ Len(BlockLines(OriginalOf(fs.root[i].name), IsStatusLine)) = 1
        /\ fs.root[i].readme.v # OriginalOf(fs.root[i].name)}

\* C26: after any number of successful update_status calls on a document
\* whose frontmatter began with exactly one status line, the frontmatter has
\* exactly one status line and at most one updated-timestamp line, and the
\* document is at most one line longer than it was at first
C26_OneStatusOneTimestamp ==
    \A i \in UpdatedDocuments :
        LET new == fs.root[i].readme.v
            old == OriginalOf(fs.root[i].name)
        IN  /\ WellFormed(new)
            /\ Len(BlockLines(new, IsStatusLine)) = 1
            /\ Len(BlockLines(new, IsUpdatedLine)) <= 1
            /\ Len(lines(new)) <= Len(lines(old)) + 1

(***************************************************************************)
(* Claims on calculate_stats, checked under SpecStats                      *)
(***************************************************************************)
Calculated == cmd = "calculate_stats" /\ stats.some

\* The number of specs of the slice whose status is "complete"
Complete == Cardinality({i \in DOMAIN specs : specs[i].status = S_complete})

\* C20: calculate_stats never divides by zero: on an empty slice the total,
\* the completion rate and the active count are 0, and on a non-empty
\* slice the completion rate is complete / total x 100 rounded to one
\* decimal (no further than half a tenth from the quotient), between 0 and
\* 100. The rate is in tenths of a percent
C20_CompletionRate ==
    Calculated =>
        /\ specs = <<>> =>
              /\ stats.v.total_specs = 0
              /\ stats.v.completion_rate = 0
              /\ stats.v.active_specs = 0
        /\ specs # <<>> =>
              /\ stats.v.total_specs = Len(specs)
              /\ 2 * (stats.v.completion_rate * Len(specs) - Complete * 1000) <= Len(specs)
              /\ 2 * (Complete * 1000 - stats.v.completion_rate * Len(specs)) <= Len(specs)
              /\ stats.v.completion_rate >= 0
              /\ stats.v.completion_rate <= 1000

\* Two of three specs are complete: the rate is 66.7
C20_Witness ==
    /\ Calculated
    /\ Len(specs) = 3
    /\ Complete = 2
    /\ stats.v.completion_rate = 667

ActiveStatuses == {S_draft, S_planned, S_in_progress}

RECURSIVE SumOfCounts(_)
SumOfCounts(histogram) ==
    IF histogram = <<>> THEN 0 ELSE histogram[1].count + SumOfCounts(Tail(histogram))

\* C21: calculate_stats returns an active count equal to the number of specs
\* whose status is draft, planned or in-progress, a status histogram whose
\* counts sum to the number of specs and never increase along it, and a
\* dependency count equal to the number of specs with a non-empty depends_on
C21_CountsAndHistogram ==
    Calculated =>
        /\ stats.v.active_specs =
              Cardinality({i \in DOMAIN specs : specs[i].status \in ActiveStatuses})
        /\ SumOfCounts(stats.v.specs_by_status) = Len(specs)
        /\ \A k \in 1..(Len(stats.v.specs_by_status) - 1) :
              stats.v.specs_by_status[k].count >= stats.v.specs_by_status[k + 1].count
        /\ stats.v.specs_with_dependencies =
              Cardinality({i \in DOMAIN specs : specs[i].depends_on # <<>>})

\* A slice with an active, a dependent and a complete spec, whose statuses
\* do not all occur equally often
C21_Witness ==
    /\ Calculated
    /\ stats.v.active_specs > 0
    /\ stats.v.active_specs < Len(specs)
    /\ stats.v.specs_with_dependencies > 0
    /\ Len(stats.v.specs_by_status) > 1
    /\ stats.v.specs_by_status[1].count > stats.v.specs_by_status[Len(stats.v.specs_by_status)].count

(***************************************************************************)
(* Claims on the token estimate, checked under SpecTokens                  *)
(***************************************************************************)
\* validate_spec has run on the spec of the document
TokensValidated == cmd = "validate_spec" /\ Len(specs) = 1 /\ Len(results) = 1

\* Ten times words x 1.3 + special characters x 0.5 of the validated text;
\* the estimate, its ceiling, exceeds n exactly when this exceeds 10 n
Tenths ==
    LET text == specs[1].content_md
    IN  13 * Cardinality({i \in 1..Len(text) :
                            text[i] \notin Whitespace /\ (i = 1 \/ text[i - 1] \in Whitespace)})
        + 5 * Cardinality({i \in 1..Len(text) : text[i] \notin Alphanumeric \cup Whitespace})

\* C22: "high-token-count" is reported exactly when the estimate exceeds
\* 5000, "moderate-token-count" exactly when it exceeds 3500 and does not
\* exceed 5000, the first as a warning and the second as an info, and no
\* result carries both
C22_TokenIssuesExact ==
    TokensValidated =>
        LET issues == {results[1].issues[k] : k \in DOMAIN results[1].issues}
            high     == {i \in issues : i.code = "high-token-count"}
            moderate == {i \in issues : i.code = "moderate-token-count"}
        IN  /\ high # {} <=> Tenths > 10 * 5000
            /\ moderate # {} <=> (Tenths > 10 * 3500 /\ Tenths <= 10 * 5000)
            /\ \A i \in high : i.severity = "Warning"
            /\ \A i \in moderate : i.severity = "Info"
            /\ high = {} \/ moderate = {}

\* A document whose estimate is 5000, not one more, carries the moderate issue
C22_Witness ==
    /\ TokensValidated
    /\ Tenths > 10 * (5000 - 1)
    /\ Tenths <= 10 * 5000
    /\ "moderate-token-count" \in Codes(results[1])
    /\ "high-token-count" \notin Codes(results[1])

\* C23: the token estimate is monotonic under appending: the estimate of a
\* text is at most the estimate of the text followed by more text
C23_EstimateMonotonic ==
    (cmd = "estimate_tokens" /\ Len(estimates) = 2) => estimates[1] <= estimates[2]

\* Appending a word to a text makes its estimate larger
C23_Witness ==
    /\ cmd = "estimate_tokens"
    /\ Len(estimates) = 2
    /\ estimates[1] > 0
    /\ estimates[1] < estimates[2]

(***************************************************************************)
(* Claims on repeated load passes, checked under Spec                      *)
(***************************************************************************)
\* C24: two load passes over the same directory content yield, for every
\* spec, the same required_by entries in the same order, each dependent
\* listed at most once and never the spec itself
C24_RequiredByIsAFunction ==
    cmd = "get_specs_again" =>
        /\ Len(specs) = Len(earlier)
        /\ \A i \in 1..Len(specs) :
              /\ specs[i].spec_name = earlier[i].spec_name
              /\ specs[i].required_by = earlier[i].required_by
              /\ \A j, k \in 1..Len(specs[i].required_by) :
                    specs[i].required_by[j] = specs[i].required_by[k] => j = k
              /\ specs[i].spec_name \notin Range(specs[i].required_by)

(***************************************************************************)
(* Claims on the loader and the validator together, checked under          *)
(* SpecAdmitted                                                            *)
(***************************************************************************)
\* C27: for every Spec that load_all returns, validate and validate_all do
\* not report "missing-status": one result per loaded spec, none with that
\* issue
C27_AdmittedHaveStatus ==
    /\ cmd = "validate_all_specs_cmd" =>
          /\ Len(results) = Len(specs)
          /\ \A i \in DOMAIN results :
                /\ results[i].spec_name = specs[i].spec_name
                /\ "missing-status" \notin Codes(results[i])
    /\ (cmd = "validate_spec_cmd" /\ found.spec.some) =>
          /\ Len(results) = 1
          /\ "missing-status" \notin Codes(results[1])

\* The directory holds a document that declares no status besides one that
\* is loaded and validated
C27_Witness ==
    /\ cmd = "validate_all_specs_cmd"
    /\ Len(results) > 0
    /\ \E e \in Entries : e[1].readme.some /\ ~parse_readme(e[1].readme.v).fm.status.some

(***************************************************************************)
(* Claims on the ProjectStore, checked under SpecProjects                  *)
(***************************************************************************)
\* The identifiers of the registered projects, in order
RegisteredIds(file) == [i \in DOMAIN file.projects |-> file.projects[i].id]

NoDuplicates(s) == \A i, j \in DOMAIN s : s[i] = s[j] => i = j

\* The call named an identifier no project of the store had
NamedUnregistered ==
    /\ called.op \in {"set_active", "toggle_favorite", "rename_project", "remove_project"}
    /\ called.argument \notin Range(RegisteredIds(called.before))

\* The method reported that it found no such project
ReportsNotFound ==
    IF called.op = "set_active" THEN called.result = None
    ELSE called.result = Err("Project not found")

\* C28: from an empty store and after any calls of add_project, set_active,
\* toggle_favorite, rename_project and remove_project, the project ids are
\* pairwise distinct, recent_projects has no duplicate and names registered
\* projects only, a successful set_active(p) leaves p first in
\* recent_projects, and a call naming an unregistered id reports not-found
\* and changes neither list
C28_StoreListsConsistent ==
    /\ NoDuplicates(RegisteredIds(store))
    /\ NoDuplicates(store.recent_projects)
    /\ Range(store.recent_projects) \subseteq Range(RegisteredIds(store))
    /\ (called.op = "set_active" /\ called.result.some) =>
          /\ Len(store.recent_projects) > 0
          /\ store.recent_projects[1] = called.argument
    /\ NamedUnregistered =>
          /\ ReportsNotFound
          /\ store = called.before

\* set_active moved a project that was not the most recent one to the front
\* of three
C28_Witness ==
    /\ called.op = "set_active"
    /\ called.result.some
    /\ Len(called.before.recent_projects) = 3
    /\ called.before.recent_projects[3] = called.argument
    /\ store.recent_projects[1] = called.argument

(***************************************************************************)
(* Claims on the desktop commands, checked under SpecDesktop               *)
(***************************************************************************)
\* The command named a project the store held when it began
NamedRegistered == payload.argument \in Range(RegisteredIds(payload.before.store))

\* C29: in every payload built by desktop_switch_project, desktop_add_project
\* and desktop_remove_project, active_project_id is none or the id of a
\* project of the payload; a switch to an unknown project is rejected and
\* leaves the active project as it was; removing the active project leaves
\* active_project_id none
C29_ActiveProjectIsListed ==
    /\ (payload.command # "none" /\ payload.built.some) =>
          \/ payload.built.v.active_project_id = None
          \/ /\ payload.built.v.active_project_id.some
             /\ \E i \in DOMAIN payload.built.v.projects :
                    payload.built.v.projects[i].id = payload.built.v.active_project_id.v
    /\ (payload.command = "desktop_switch_project" /\ ~NamedRegistered) =>
          /\ ~payload.result.ok
          /\ ~payload.built.some
          /\ config = payload.before.config
    /\ (/\ payload.command = "desktop_remove_project"
        /\ NamedRegistered
        /\ payload.before.config.active_project_id = Some(payload.argument)) =>
          /\ config.active_project_id = None
          /\ payload.built.some
          /\ payload.built.v.active_project_id = None

\* The active one of two projects was removed
C29_Witness ==
    /\ payload.command = "desktop_remove_project"
    /\ NamedRegistered
    /\ payload.before.config.active_project_id = Some(payload.argument)
    /\ Len(payload.before.store.projects) = 2
    /\ payload.result.ok
    /\ payload.result.v.active_project_id = None
    /\ Len(payload.result.v.projects) = 1

(***************************************************************************)
(* Claims on the UiServerManager, checked under SpecServer                 *)
(***************************************************************************)
\* No call is under way
Quiescent == \A t \in Threads : threads[t].pc = "outside"

\* The server processes that run
Running == {c \in DOMAIN children : children[c] = "running"}

\* C30: whatever the interleaving of ensure_running and stop calls, once the
\* calls have returned every server process that runs is the child stored in
\* the manager, so at most one runs, also after a failed readiness wait; and
\* a URL is cached only while a child is stored or the URL is the override
C30_ChildrenAreOwned ==
    Quiescent =>
        /\ \A c \in Running : manager.child = Some(c)
        /\ Cardinality(Running) <= 1
        /\ manager.url.some => (manager.child.some \/ manager.url.v = OverrideUrl)

=============================================================================
